---- MODULE Spec2Model ----
(***************************************************************************)
(* A model of mysql-mcp-server: the execute tool's dry-run / confirmation  *)
(* protocol (main.go handleExecuteTool, estimateAffectedRows,              *)
(* cleanupExpiredTokens), the query tool with its result cache             *)
(* (main.go handleQueryTool, cache/cache.go) and the lexical statement     *)
(* classifiers (isSelectQuery, detectQueryOperation, CanUseTransaction).   *)
(* SQL texts are TLA+ strings and the classifiers work on their            *)
(* characters, as the Go code does.                                        *)
(***************************************************************************)
EXTENDS Integers, Sequences, FiniteSets, TLC

(***************************************************************************)
(* Strings: the parts of Go's strings package the program uses.            *)
(***************************************************************************)
Char(s, i) == SubSeq(s, i, i)

\* unicode.IsSpace on the characters a statement of the model can hold
IsSpace(c) == c \in {" ", "\t", "\n", "\r"}

LowerLetters == "abcdefghijklmnopqrstuvwxyz"

UpperLetters == "ABCDEFGHIJKLMNOPQRSTUVWXYZ"

UpperChar(c) ==
    IF \E i \in 1..26 : Char(LowerLetters, i) = c
    THEN Char(UpperLetters, CHOOSE i \in 1..26 : Char(LowerLetters, i) = c)
    ELSE c

RECURSIVE ToUpperFrom(_, _)
ToUpperFrom(s, i) ==
    IF i > Len(s) THEN "" ELSE UpperChar(Char(s, i)) \o ToUpperFrom(s, i + 1)

\* strings.ToUpper
ToUpper(s) == ToUpperFrom(s, 1)

\* the index of the first character at or after i that is not white space
\* (Len(s) + 1 when there is none)
RECURSIVE WsEnd(_, _)
WsEnd(s, i) ==
    IF i <= Len(s) /\ IsSpace(Char(s, i)) THEN WsEnd(s, i + 1) ELSE i

\* the index of the last character at or before i that is not white space
\* (0 when there is none)
RECURSIVE WsStart(_, _)
WsStart(s, i) ==
    IF i >= 1 /\ IsSpace(Char(s, i)) THEN WsStart(s, i - 1) ELSE i

\* strings.TrimSpace
TrimSpace(s) == SubSeq(s, WsEnd(s, 1), WsStart(s, Len(s)))

\* whether p occurs in s at index i
HasPrefixAt(s, i, p) ==
    /\ i + Len(p) - 1 <= Len(s)
    /\ SubSeq(s, i, i + Len(p) - 1) = p

\* strings.HasPrefix
HasPrefix(s, p) == HasPrefixAt(s, 1, p)

\* the index of the first "\n" at or after i (Len(s) + 1 when there is none)
RECURSIVE NewlineFrom(_, _)
NewlineFrom(s, i) ==
    IF i > Len(s) \/ Char(s, i) = "\n" THEN i ELSE NewlineFrom(s, i + 1)

(***************************************************************************)
(* The classifiers' regular expression                                     *)
(*     ^\s*(--.*\n|/\*.*?\*/)*\s*(K1|K2|...)                               *)
(* matched as Go's regexp does (leftmost-first): a line comment runs to    *)
(* the first newline, a block comment to a closing mark on the same line   *)
(* (the shortest one first), "." never matches a newline, and no white     *)
(* space may stand between two comments.  The result is the keyword        *)
(* matched, or "" when the expression does not match.                      *)
(***************************************************************************)
\* the first keyword of kws that occurs at index i, or ""
RECURSIVE KeywordAt(_, _, _)
KeywordAt(s, i, kws) ==
    IF kws = <<>> THEN ""
    ELSE IF HasPrefixAt(s, i, Head(kws)) THEN Head(kws)
    ELSE KeywordAt(s, i, Tail(kws))

\* \s*(K1|K2|...) from index i: a keyword starts with a letter, so only the
\* whole run of white space can precede it
MatchTail(s, i, kws) == KeywordAt(s, WsEnd(s, i), kws)

\* the closing marks "*/" a block comment opened at index i can end with
BlockEnds(s, i) ==
    {q \in (i + 2)..(Len(s) - 1) :
        /\ SubSeq(s, q, q + 1) = "*/"
        /\ NewlineFrom(s, i + 2) >= q}

RECURSIVE MatchComments(_, _, _)
MatchComments(s, i, kws) ==
    LET nl == NewlineFrom(s, i + 2)
        viaLine ==
            IF HasPrefixAt(s, i, "--") /\ nl <= Len(s)
            THEN MatchComments(s, nl + 1, kws) ELSE ""
        good == {q \in BlockEnds(s, i) : MatchComments(s, q + 2, kws) # ""}
        viaBlock ==
            IF HasPrefixAt(s, i, "/*") /\ good # {}
            THEN MatchComments(s,
                   (CHOOSE q \in good : \A r \in good : q <= r) + 2, kws)
            ELSE ""
    IN  IF viaLine # "" THEN viaLine
        ELSE IF viaBlock # "" THEN viaBlock
        ELSE MatchTail(s, i, kws)

\* the whole expression, anchored at the start of s
MatchLeading(s, kws) == MatchComments(s, WsEnd(s, 1), kws)

\* isSelectQuery checks if the query is a SELECT statement
isSelectQuery(query) ==
    LET trimmed == TrimSpace(ToUpper(query))
    IN  MatchLeading(trimmed, <<"SELECT">>) # ""

operations ==
    <<"INSERT", "UPDATE", "DELETE", "CREATE", "DROP", "ALTER", "TRUNCATE",
      "REPLACE">>

\* detectQueryOperation detects the SQL operation type
detectQueryOperation(query) ==
    LET trimmed == TrimSpace(ToUpper(query))
        byPrefix == KeywordAt(trimmed, 1, operations)
        matched == MatchLeading(trimmed, operations)
    IN  IF byPrefix # "" THEN byPrefix
        ELSE IF matched # "" THEN matched
        ELSE "UNKNOWN"

nonTransactionalStatements ==
    {"CREATE", "DROP", "ALTER", "TRUNCATE", "RENAME", "ANALYZE", "CHECK",
     "OPTIMIZE", "REPAIR", "LOCK", "UNLOCK", "SET", "START", "COMMIT",
     "ROLLBACK"}

\* CanUseTransaction checks if a query can be executed in a transaction
CanUseTransaction(query) ==
    LET upperQuery == ToUpper(TrimSpace(query))
    IN  ~ \E stmt \in nonTransactionalStatements :
            HasPrefix(upperQuery, stmt \o " ") \/ upperQuery = stmt

(***************************************************************************)
(* Numbers as text: fmt.Sprintf("%d") and fmt.Sscanf("%d").                *)
(***************************************************************************)
Digits == "0123456789"

RECURSIVE ItoaNat(_)
ItoaNat(n) ==
    IF n < 10 THEN Char(Digits, n + 1)
    ELSE ItoaNat(n \div 10) \o Char(Digits, (n % 10) + 1)

\* fmt.Sprintf("%d", n)
Itoa(n) == IF n < 0 THEN "-" \o ItoaNat(0 - n) ELSE ItoaNat(n)

IsDigit(c) == \E d \in 1..10 : Char(Digits, d) = c

DigitValue(c) == (CHOOSE d \in 1..10 : Char(Digits, d) = c) - 1

\* the value of the digits of s from index i on, after the value acc
RECURSIVE ScanDigits(_, _, _)
ScanDigits(s, i, acc) ==
    IF i <= Len(s) /\ IsDigit(Char(s, i))
    THEN ScanDigits(s, i + 1, acc * 10 + DigitValue(Char(s, i)))
    ELSE acc

\* fmt.Sscanf(val, "%d", &result): leading spaces are skipped, a sign may
\* stand before the digits, scanning stops at the first other character, and
\* no digit at all is an error
Sscanf(val) ==
    LET i == WsEnd(val, 1)
        neg == HasPrefixAt(val, i, "-")
        j == IF neg \/ HasPrefixAt(val, i, "+") THEN i + 1 ELSE i
        n == ScanDigits(val, j, 0)
    IN  IF j <= Len(val) /\ IsDigit(Char(val, j))
        THEN [err |-> FALSE, val |-> IF neg THEN 0 - n ELSE n]
        ELSE [err |-> TRUE, val |-> 0]

\* convertToInt64 converts various types to int64; a value is a record
\* [type, num] or [type, text], and []byte values reach the server as
\* strings (Client.Query)
convertToInt64(v) ==
    IF v.type \in {"int64", "int", "int32", "uint64", "uint", "uint32",
                   "float64", "float32"}
    THEN [err |-> FALSE, val |-> v.num]
    ELSE IF v.type = "string" THEN Sscanf(v.text)
    ELSE [err |-> TRUE, val |-> 0]

(***************************************************************************)
(* The bounds of the model and the inputs the actions draw from.           *)
(***************************************************************************)
\* the clock stops after MaxTicks steps
MaxTicks == 2

\* at most MaxMint dry runs mint a token
MaxMint == 2

\* QueryCache.maxEntries (the server asks for 1000)
MaxEntries == 2

\* QueryCache.ttl, 5*time.Minute: the clock counts half minutes, so that
\* the period ttl/2 of the cache's ticker is a whole number
TTLCache == 10

\* the confirmation lifetime, 5*time.Minute, in half minutes
TTLConfirm == 10

\* the clock advances in steps of the confirmation lifetime: a record is
\* seen at the ages 0, TTLConfirm (the last age it is honoured at) and
\* beyond
TickMinutes == TTLConfirm

\* the statements a client sends: no text, a read, a write the probe can
\* roll back, a table drop bare and behind a comment, and a read behind a
\* comment of two lines
Statements ==
    {"", "SELECT 1", "DELETE FROM t", "DROP TABLE t", "/*c*/DROP TABLE t",
     "/*\n*/SELECT 1"}

\* the statements a client sends to the query and explain tools: those, a
\* read in lower case, a write whose string literal closes a comment, and a
\* write behind the word ANALYZE
Queries ==
    Statements \cup {"select 2", "/**/DELETE FROM t WHERE a='*/SELECT'",
                     "ANALYZE DELETE t FROM t, u"}

\* the statements whose dry runs exercise each branch of the estimator: one
\* of each operation it knows, an UPDATE without WHERE, a DROP behind a
\* comment, an ALTER and a statement of no known operation
EstimateStatements ==
    {"DELETE FROM t", "UPDATE t SET a=1 WHERE b=2", "UPDATE t SET a=1",
     "INSERT INTO t VALUES (1),(2)", "TRUNCATE TABLE t", "DROP TABLE t",
     "/*c*/DROP TABLE t", "ALTER TABLE t ADD c INT", "GRANT ALL ON t TO u"}

\* the affected-row counts the database reports
RowCounts == {0, 5}

\* the values of the dry_run argument: absent from the JSON, true, false
DryRunArgs == {"absent", "true", "false"}

Null == [null |-> TRUE]

(***************************************************************************)
(* The classifiers' and the estimator's answers for the statements of the  *)
(* model, computed once: the handlers below look them up.                  *)
(***************************************************************************)
IsSelect == [s \in Queries \cup EstimateStatements |-> isSelectQuery(s)]

OperationOf ==
    [s \in Queries \cup EstimateStatements |-> detectQueryOperation(s)]

Transactional ==
    [s \in Statements \cup EstimateStatements |-> CanUseTransaction(s)]

(***************************************************************************)
(* mysql.Client.  A method's outcomes are the records                      *)
(*     [err, val, calls]                                                   *)
(* the database's answers allow: calls are the calls that reached the      *)
(* database/sql driver, in order, each [method, sql, ok].  The methods are *)
(* called on a connected client only: handleToolsCall answers every tool   *)
(* call itself while the client is nil.                                    *)
(***************************************************************************)
Call(method, sql, ok) == [method |-> method, sql |-> sql, ok |-> ok]

Outcome(err, val, cs) == [err |-> err, val |-> val, calls |-> cs]

\* the rows of a read query's result
ResultSets == {<<>>, <<[id |-> 1]>>}

\* the values a count column comes back as
CountValues ==
    {[type |-> "int64", num |-> n] : n \in RowCounts} \cup
    {[type |-> "string", text |-> t] : t \in {"5", "x"}}

CountPrefix == "SELECT COUNT(*) as count FROM"

\* the rows the database may answer a query with
DbRows(query) ==
    IF HasPrefix(query, CountPrefix)
    THEN {<<>>} \cup {<<[count |-> v]>> : v \in CountValues}
    ELSE ResultSets

\* Client.Query
Query(query) ==
    {Outcome(TRUE, <<>>, <<Call("db.Query", query, FALSE)>>)} \cup
    {Outcome(FALSE, rows, <<Call("db.Query", query, TRUE)>>) :
        rows \in DbRows(query)}

\* Client.Execute executes a non-SELECT query (INSERT, UPDATE, DELETE, etc.)
Execute(query) ==
    {Outcome(TRUE, 0, <<Call("db.Exec", query, FALSE)>>)} \cup
    {Outcome(FALSE, n, <<Call("db.Exec", query, TRUE)>>) : n \in RowCounts}

\* an ExecuteInTransaction that rolls back only where it returns the count
ExecuteInTransactionNoDefer(query) ==
    LET begun == <<Call("db.Begin", "", TRUE)>>
        rollback == <<Call("tx.Rollback", "", TRUE)>>
    IN  {Outcome(TRUE, 0, <<Call("db.Begin", "", FALSE)>>)} \cup
        {Outcome(TRUE, 0, begun \o <<Call("tx.Exec", query, FALSE)>>)} \cup
        {Outcome(TRUE, 0, begun \o <<Call("tx.Exec", query, TRUE)>>)} \cup
        {Outcome(FALSE, n,
                 begun \o <<Call("tx.Exec", query, TRUE)>> \o rollback) :
            n \in RowCounts}

\* Client.ExecuteInTransaction executes a query within a transaction and
\* returns the affected rows; the deferred tx.Rollback runs on every return
\* after a successful Begin
ExecuteInTransaction(query) ==
    LET begun == <<Call("db.Begin", "", TRUE)>>
        rollback == <<Call("tx.Rollback", "", TRUE)>>
    IN  {Outcome(TRUE, 0, <<Call("db.Begin", "", FALSE)>>)} \cup
        {Outcome(TRUE, 0,
                 begun \o <<Call("tx.Exec", query, FALSE)>> \o rollback)} \cup
        {Outcome(TRUE, 0,
                 begun \o <<Call("tx.Exec", query, TRUE)>> \o rollback)} \cup
        {Outcome(FALSE, n,
                 begun \o <<Call("tx.Exec", query, TRUE)>> \o rollback) :
            n \in RowCounts}

(***************************************************************************)
(* estimateAffectedRows: the transaction probe, then the heuristics.       *)
(***************************************************************************)
\* regexp (?i)DELETE\s+FROM, ReplaceAllString(sql, CountPrefix): from index i
RECURSIVE ReplaceDeleteFrom(_, _)
ReplaceDeleteFrom(sql, i) ==
    LET up == ToUpper(sql)
        e == WsEnd(sql, i + 6)
    IN  IF i > Len(sql) THEN ""
        ELSE IF /\ HasPrefixAt(up, i, "DELETE")
                /\ e > i + 6
                /\ HasPrefixAt(up, e, "FROM")
        THEN CountPrefix \o ReplaceDeleteFrom(sql, e + 4)
        ELSE Char(sql, i) \o ReplaceDeleteFrom(sql, i + 1)

\* a DELETE estimate that degrades to -1 when its count query fails
EstimateDeleteUnknown(sql, pre) ==
    LET selectQuery == ReplaceDeleteFrom(sql, 1)
    IN  {Outcome(FALSE, -1, pre \o o.calls) : o \in Query(selectQuery)}

\* the DELETE heuristic, after the calls pre
EstimateDelete(sql, pre) ==
    LET selectQuery == ReplaceDeleteFrom(sql, 1)
        one(o) ==
            IF o.err THEN Outcome(TRUE, 0, pre \o o.calls)
            ELSE IF Len(o.val) > 0
            THEN LET c == convertToInt64(o.val[1].count)
                 IN  Outcome(c.err, c.val, pre \o o.calls)
            ELSE Outcome(FALSE, 0, pre \o o.calls)
    IN  {one(o) : o \in Query(selectQuery)}

\* the index of the first character at or after i that is white space
\* (Len(s) + 1 when there is none)
RECURSIVE NonSpaceEnd(_, _)
NonSpaceEnd(s, i) ==
    IF i <= Len(s) /\ ~IsSpace(Char(s, i)) THEN NonSpaceEnd(s, i + 1) ELSE i

\* strings.Index, counted from 1 (0 when p does not occur in s)
Index(s, p) ==
    LET at == {i \in 1..Len(s) : HasPrefixAt(s, i, p)}
    IN  IF at = {} THEN 0 ELSE CHOOSE i \in at : \A j \in at : i <= j

\* strings.Count of a single character
Count(s, c) == Cardinality({i \in 1..Len(s) : Char(s, i) = c})

\* regexp (?i)UPDATE\s+(\S+)\s+SET\s+.*?(WHERE.*)?$ tried at index i:
\* [ok, table, where].  "." matches no newline and "$" only the end of the
\* text, so nothing after SET and its white space may hold a newline.
UpdateMatchAt(sql, i) ==
    LET up == ToUpper(sql)
        t == WsEnd(sql, i + 6)
        te == NonSpaceEnd(sql, t)
        st == WsEnd(sql, te)
        r == WsEnd(sql, st + 3)
        rest == SubSeq(sql, r, Len(sql))
        w == Index(ToUpper(rest), "WHERE")
    IN  IF /\ HasPrefixAt(up, i, "UPDATE")
           /\ t > i + 6
           /\ te > t
           /\ st > te
           /\ HasPrefixAt(up, st, "SET")
           /\ r > st + 3
           /\ NewlineFrom(sql, r) > Len(sql)
        THEN [ok |-> TRUE, table |-> SubSeq(sql, t, te - 1),
              where |-> IF w = 0 THEN "" ELSE SubSeq(rest, w, Len(rest))]
        ELSE [ok |-> FALSE, table |-> "", where |-> ""]

\* the UPDATE heuristic, after the calls pre
EstimateUpdate(sql, pre) ==
    LET at == {i \in 1..Len(sql) : UpdateMatchAt(sql, i).ok}
        m == UpdateMatchAt(sql, CHOOSE i \in at : \A j \in at : i <= j)
        selectQuery == CountPrefix \o " " \o m.table \o " " \o m.where
        one(o) ==
            IF o.err THEN Outcome(TRUE, 0, pre \o o.calls)
            ELSE IF Len(o.val) > 0 /\ o.val[1].count.type = "int64"
            THEN Outcome(FALSE, o.val[1].count.num, pre \o o.calls)
            ELSE IF Len(o.val) > 0 /\ o.val[1].count.type = "string"
            THEN Outcome(FALSE, Sscanf(o.val[1].count.text).val,
                         pre \o o.calls)
            ELSE Outcome(FALSE, 0, pre \o o.calls)
    IN  IF at = {} THEN {Outcome(FALSE, 0, pre)}
        ELSE {one(o) : o \in Query(selectQuery)}

\* the INSERT heuristic: the opening parentheses after the first VALUES
EstimateInsert(sql) ==
    LET valuesIndex == Index(ToUpper(sql), "VALUES")
        valuesPart == SubSeq(sql, valuesIndex + 6, Len(sql))
        rowCount == Count(valuesPart, "(")
    IN  IF valuesIndex # 0 /\ rowCount > 0 THEN rowCount ELSE 1

\* regexp (?i)TRUNCATE\s+(?:TABLE\s+)?(\S+) tried at index i: [ok, table]
TruncateMatchAt(sql, i) ==
    LET up == ToUpper(sql)
        t == WsEnd(sql, i + 8)
        t2 == WsEnd(sql, t + 5)
        viaTable == /\ HasPrefixAt(up, t, "TABLE")
                    /\ t2 > t + 5
                    /\ t2 <= Len(sql)
        n == IF viaTable THEN t2 ELSE t
    IN  IF /\ HasPrefixAt(up, i, "TRUNCATE")
           /\ t > i + 8
           /\ t <= Len(sql)
        THEN [ok |-> TRUE, table |-> SubSeq(sql, n, NonSpaceEnd(sql, n) - 1)]
        ELSE [ok |-> FALSE, table |-> ""]

\* a TLA+ string cannot hold a backtick: the model's texts write it "^"
Backtick == "^"

IsQuote(c) == c \in {Backtick, "\"", "'"}

\* strings.Trim(table, ...) of the backtick and the two quotes
RECURSIVE TrimQuotes(_)
TrimQuotes(s) ==
    IF s = "" THEN ""
    ELSE IF IsQuote(Char(s, 1)) THEN TrimQuotes(SubSeq(s, 2, Len(s)))
    ELSE IF IsQuote(Char(s, Len(s))) THEN TrimQuotes(SubSeq(s, 1, Len(s) - 1))
    ELSE s

\* the TRUNCATE heuristic, after the calls pre
EstimateTruncate(sql, pre) ==
    LET at == {i \in 1..Len(sql) : TruncateMatchAt(sql, i).ok}
        m == TruncateMatchAt(sql, CHOOSE i \in at : \A j \in at : i <= j)
        selectQuery ==
            CountPrefix \o " " \o Backtick \o TrimQuotes(m.table) \o Backtick
        one(o) ==
            IF o.err THEN Outcome(FALSE, -1, pre \o o.calls)
            ELSE IF Len(o.val) > 0
            THEN LET c == convertToInt64(o.val[1].count)
                 IN  Outcome(FALSE, IF c.err THEN -1 ELSE c.val,
                             pre \o o.calls)
            ELSE Outcome(FALSE, -1, pre \o o.calls)
    IN  IF at = {} THEN {Outcome(FALSE, -1, pre)}
        ELSE {one(o) : o \in Query(selectQuery)}

\* the switch on the operation, after the calls pre
EstimateFallback(sql, pre) ==
    LET operation == OperationOf[sql]
    IN  CASE operation = "DELETE" -> EstimateDelete(sql, pre)
          [] operation = "UPDATE" -> EstimateUpdate(sql, pre)
          [] operation = "INSERT" -> {Outcome(FALSE, EstimateInsert(sql), pre)}
          [] operation = "TRUNCATE" -> EstimateTruncate(sql, pre)
          [] operation = "DROP" -> {Outcome(FALSE, -1, pre)}
          [] OTHER -> {Outcome(FALSE, 0, pre)}

estimateAffectedRows(sql) ==
    IF Transactional[sql]
    THEN LET tx == ExecuteInTransaction(sql)
         IN  {o \in tx : ~o.err} \cup
             UNION {EstimateFallback(sql, o.calls) : o \in {t \in tx : t.err}}
    ELSE EstimateFallback(sql, <<>>)

\* estimateAffectedRows for each statement of the model
Estimates ==
    [s \in Statements \cup EstimateStatements |-> estimateAffectedRows(s)]

VARIABLES
    mysqlClient,    \* MCPServer.mysqlClient: "nil" or "connected"
    confirmTokens,  \* MCPServer.confirmTokens: token -> ExecuteConfirmation
    queryCache,     \* MCPServer.queryCache: Null (nil) or [entries]
    now,            \* the clock, in half minutes
    nanos,          \* the number of UnixNano readings tokens were made from
    clock,          \* the wall clock behind UnixNano: "strict" where no two
                    \* dry runs get the same reading; where they can, "held"
                    \* while it shows the reading of the last token made and
                    \* "moved" otherwise
    minted,         \* the tokens dry runs have returned so far
    request,        \* the last tool call
    response,       \* the response to it
    calls,          \* the calls that handler made to the database and to the
                    \* cache, in order
    scanning,       \* Start's scan loop has not ended
    input,          \* the lines the scanner has been given, in order
    output,         \* the response lines written to the writer, in order
    mu,             \* QueryCache.mu: the goroutine that holds it for writing
                    \* ("none" when there is none) and those that hold it
                    \* for reading
    section         \* for each goroutine, the method it is inside of that
                    \* reads or writes the cache or the confirmation store

\* what Start's loop reads and writes
dispatcher == <<scanning, input, output>>

\* the lock of the cache and who is inside which method
locking == <<mu, section>>

\* the goroutine of main, which runs Start and every handler, and the one
\* NewQueryCache starts for cleanup
Goroutines == {"main", "cleanup"}

\* a goroutine that is inside none of those methods
Idle == [structure |-> "none", op |-> "none", sql |-> "", rows |-> <<>>]

Inside(structure, op, sql, rows) ==
    [structure |-> structure, op |-> op, sql |-> sql, rows |-> rows]

vars ==
    <<mysqlClient, confirmTokens, queryCache, now, nanos, clock, minted,
      request, response, calls, scanning, input, output, mu, section>>

\* a map with no key
EmptyMap == [k \in {} |-> Null]

\* m[k] = v
Put(m, k, v) == [x \in DOMAIN m \cup {k} |-> IF x = k THEN v ELSE m[x]]

\* a delete that removes nothing
DeleteNothing(m, k) == m

\* delete(m, k)
Delete(m, k) == [x \in DOMAIN m \ {k} |-> m[x]]

\* NewMCPServer, then Start: InitMySQL connects or leaves the client nil
Init ==
    /\ mysqlClient \in {"nil", "connected"}
    /\ confirmTokens = EmptyMap
    /\ queryCache = IF mysqlClient = "nil" THEN Null
                    ELSE [entries |-> EmptyMap]
    /\ now = 0
    /\ nanos = 0
    /\ clock = "strict"
    /\ minted = {}
    /\ request = Null
    /\ response = Null
    /\ calls = <<>>
    /\ scanning = TRUE
    /\ input = <<>>
    /\ output = <<>>
    /\ mu = [writer |-> "none", readers |-> {}]
    /\ section = [g \in Goroutines |-> Idle]

\* Response with Error set and Result left nil
ErrorResponse(code, message) ==
    [Result |-> Null, Error |-> [Code |-> code, Message |-> message]]

\* a Response whose Result is nil as well as its Error
ResultNil(result) == [Result |-> Null, Error |-> Null]

\* Response with Result set and Error left nil
ResultResponse(result) == [Result |-> result, Error |-> Null]

\* a handler returns resp after the calls cs, leaving the tokens as given
Return(resp, cs, tokens) ==
    /\ response' = resp
    /\ calls' = cs
    /\ confirmTokens' = tokens

\* a dry_run flag that defaults to false
DryRunDefaultFalse(dry_run) == dry_run = "true"

\* gjson .Bool(), and the default to dry_run=true if not specified
DryRunOf(dry_run) == IF dry_run = "absent" THEN TRUE ELSE dry_run = "true"

\* a confirm_token argument that is never taken as missing
TokenMissingNever(confirmToken) == FALSE

\* confirmToken == ""
TokenMissing(confirmToken) == confirmToken = ""

\* a record that never expires
TokenNeverExpired(confirmation, t) == FALSE

\* a record that expires after twice the lifetime
TokenExpiredLate(confirmation, t) ==
    t - confirmation.CreatedAt > 2 * TTLConfirm

\* time.Since(confirmation.CreatedAt) > 5*time.Minute
TokenExpired(confirmation, t) == t - confirmation.CreatedAt > TTLConfirm

\* a comparison that takes every statement for the previewed one
SQLAlwaysMatches(confirmation, sql) == FALSE

\* confirmation.SQL != sql
SQLMismatch(confirmation, sql) == confirmation.SQL # sql

\* generateConfirmToken: the first 12 hex digits of the MD5 digest of
\* "<sql>_<rows>_<UnixNano>"; the digest is modelled by the text it is taken
\* of, so that different texts give different tokens
generateConfirmToken(sql, affectedRows, unixNano) ==
    "md5:" \o sql \o "_" \o Itoa(affectedRows) \o "_" \o Itoa(unixNano)

\* time.Now().UnixNano() when a token is made, counted in readings: the
\* next reading, or the last one again while a coarse clock still holds it
UnixNano == {nanos + 1} \cup (IF clock = "held" THEN {nanos} ELSE {})

\* a sweep that also removes the records whose age is the lifetime itself
cleanupAtLifetime(tokens, t) ==
    LET keep == {k \in DOMAIN tokens : t - tokens[k].CreatedAt < TTLConfirm}
    IN  [k \in keep |-> tokens[k]]

\* cleanupExpiredTokens
cleanupExpiredTokens(tokens, t) ==
    LET keep == {k \in DOMAIN tokens : ~(t - tokens[k].CreatedAt > TTLConfirm)}
    IN  [k \in keep |-> tokens[k]]

\* the note comparing the actual count with the estimate
RowDifference(estimated, rowsAffected) ==
    IF estimated > 0 /\ rowsAffected # estimated
    THEN IF rowsAffected - estimated > 0 THEN "exceeded" ELSE "less"
    ELSE ""

\* the warning of a dry run
Warning(operation, affectedRows) ==
    IF operation = "DROP" THEN "CRITICAL: DROP"
    ELSE IF operation = "TRUNCATE" THEN "CRITICAL: TRUNCATE"
    ELSE IF affectedRows > 1000 THEN "WARNING: large"
    ELSE IF affectedRows = -1 THEN "WARNING: unable to estimate"
    ELSE ""

\* handleExecuteTool, the confirmed execution (dry_run=false)
ConfirmedExecution(sql, confirmToken) ==
    IF TokenMissing(confirmToken)
    THEN Return(ErrorResponse(-32602,
                    "confirm_token is required when dry_run=false"),
                <<>>, confirmTokens)
    ELSE IF confirmToken \notin DOMAIN confirmTokens
    THEN Return(ErrorResponse(-32602, "Invalid or expired confirmation token"),
                <<>>, confirmTokens)
    ELSE LET confirmation == confirmTokens[confirmToken]
         IN  IF TokenExpired(confirmation, now)
             THEN Return(ErrorResponse(-32602,
                             "Confirmation token has expired. Please run with dry_run=true again."),
                         <<>>, Delete(confirmTokens, confirmToken))
             ELSE IF SQLMismatch(confirmation, sql)
             THEN Return(ErrorResponse(-32602,
                             "SQL does not match the confirmation token"),
                         <<>>, confirmTokens)
             ELSE \E o \in Execute(sql) :
                    IF o.err
                    THEN Return(ErrorResponse(-32603, "Execution failed"),
                                o.calls, confirmTokens)
                    ELSE Return(ResultResponse(
                                    [success |-> TRUE,
                                     operation |-> confirmation.Operation,
                                     rows_affected |-> o.val,
                                     estimated_rows |-> confirmation.AffectedRows,
                                     row_difference |->
                                        RowDifference(confirmation.AffectedRows,
                                                      o.val)]),
                                o.calls, Delete(confirmTokens, confirmToken))

\* handleExecuteTool, the dry run
DryRun(sql) ==
    LET operation == OperationOf[sql]
    IN  \E o \in Estimates[sql] :
            IF o.err
            THEN /\ Return(ErrorResponse(-32603, "Failed to analyze query"),
                           o.calls, confirmTokens)
                 /\ UNCHANGED <<nanos, clock, minted>>
            ELSE \E unixNano \in UnixNano :
                 LET token == generateConfirmToken(sql, o.val, unixNano)
                     stored ==
                        Put(confirmTokens, token,
                            [SQL |-> sql, AffectedRows |-> o.val,
                             Operation |-> operation, CreatedAt |-> now])
                 IN  /\ unixNano <= MaxMint
                     /\ Cardinality(minted \cup {token}) <= MaxMint
                     /\ nanos' = unixNano
                     /\ clock' = (IF clock = "strict" THEN "strict"
                                  ELSE "held")
                     /\ minted' = minted \cup {token}
                     /\ Return(ResultResponse(
                                   [affected_rows |-> o.val,
                                    operation |-> operation,
                                    confirm_token |-> token,
                                    warning |-> Warning(operation, o.val),
                                    is_dangerous_operation |->
                                       operation \in {"DROP", "TRUNCATE", "ALTER"},
                                    is_exact_count |-> Transactional[sql]]),
                               o.calls, cleanupExpiredTokens(stored, now))

\* the confirm_token arguments a client sends: none, a made-up one, or one
\* a dry run has returned
ConfirmTokenArgs == {"", "invalid_token"} \cup minted

\* handleExecuteTool, reached through handleToolsCall, which answers with
\* its own error while the client is nil
\* handleExecuteTool with the arguments sql, dry_run and confirm_token
ExecuteToolCall(sql, dry_run, confirmToken) ==
    /\ mysqlClient # "nil"
    /\ request' = [tool |-> "execute", sql |-> sql, dry_run |-> dry_run,
                   confirm_token |-> confirmToken]
    /\ UNCHANGED <<mysqlClient, queryCache, now>>
    /\ IF sql = ""
       THEN /\ Return(ErrorResponse(-32602, "SQL parameter is required"),
                      <<>>, confirmTokens)
            /\ UNCHANGED <<nanos, clock, minted>>
       ELSE IF IsSelect[sql]
       THEN /\ Return(ErrorResponse(-32602,
                          "SELECT queries should use the 'query' tool instead. Use the 'query' tool for SELECT statements."),
                      <<>>, confirmTokens)
            /\ UNCHANGED <<nanos, clock, minted>>
       ELSE IF ~DryRunOf(dry_run)
       THEN /\ ConfirmedExecution(sql, confirmToken)
            /\ UNCHANGED <<nanos, clock, minted>>
       ELSE DryRun(sql)

handleExecuteTool ==
    \E sql \in Statements, dry_run \in DryRunArgs,
       confirmToken \in ConfirmTokenArgs :
        ExecuteToolCall(sql, dry_run, confirmToken)

\* handleExecuteTool called for a preview of a statement of each operation
PreviewCall ==
    \E sql \in EstimateStatements, dry_run \in {"absent", "true"} :
        ExecuteToolCall(sql, dry_run, "")

\* a Get that does not look at the entry's age
GetWithoutTTL(entries, query, t) ==
    IF query \notin DOMAIN entries
    THEN [found |-> FALSE, rows |-> <<>>]
    ELSE [found |-> TRUE, rows |-> entries[query].Result]

(***************************************************************************)
(* cache.QueryCache.  Each method runs under the cache's lock, so it is    *)
(* one step.                                                               *)
(***************************************************************************)
\* a Get that finds nothing
GetNothing(entries, query, t) == [found |-> FALSE, rows |-> <<>>]

\* QueryCache.Get at time t: [found, rows]
Get(entries, query, t) ==
    IF query \notin DOMAIN entries \/ t - entries[query].Timestamp > TTLCache
    THEN [found |-> FALSE, rows |-> <<>>]
    ELSE [found |-> TRUE, rows |-> entries[query].Result]

\* a Get that stamps the entry it returns with the time of the read
GetTouching(entries, query, t) ==
    IF query \notin DOMAIN entries \/ t - entries[query].Timestamp > TTLCache
    THEN entries
    ELSE [entries EXCEPT ![query].Timestamp = t]

\* the entries QueryCache.Get leaves: it holds the lock for reading only and
\* assigns to nothing
GetLeaves(entries, query, t) == entries

\* an eviction that takes any entry
AnyKeys(entries) == DOMAIN entries

\* the keys the scan for the oldest entry can end on: Go ranges over a map
\* in no fixed order and keeps the first of equally old entries
OldestKeys(entries) ==
    {k \in DOMAIN entries :
        \A j \in DOMAIN entries : entries[k].Timestamp <= entries[j].Timestamp}

\* a Set that inserts without looking at the capacity
SetWithoutEviction(entries, query, result, t) ==
    {Put(entries, query, [Result |-> result, Timestamp |-> t])}

\* a Set that inserts first and evicts the oldest entry afterwards
SetThenEvict(entries, query, result, t) ==
    LET put == Put(entries, query, [Result |-> result, Timestamp |-> t])
    IN  IF Cardinality(DOMAIN put) > MaxEntries
        THEN {Delete(put, k) :
                 k \in {k \in DOMAIN put : \A j \in DOMAIN put :
                            put[k].Timestamp <= put[j].Timestamp}}
        ELSE {put}

\* QueryCache.Set at time t: the entries it can leave
Set(entries, query, result, t) ==
    LET entry == [Result |-> result, Timestamp |-> t]
    IN  IF Cardinality(DOMAIN entries) >= MaxEntries /\ DOMAIN entries # {}
        THEN {Put(Delete(entries, oldestKey), query, entry) :
                 oldestKey \in OldestKeys(entries)}
        ELSE {Put(entries, query, entry)}

\* a round of cleanup that removes only the entries older than twice the TTL
SweepLate(entries, t) ==
    LET keep == {k \in DOMAIN entries :
                    ~(t - entries[k].Timestamp > 2 * TTLCache)}
    IN  [k \in keep |-> entries[k]]

\* one round of QueryCache.cleanup at time t
Sweep(entries, t) ==
    LET keep == {k \in DOMAIN entries : ~(t - entries[k].Timestamp > TTLCache)}
    IN  [k \in keep |-> entries[k]]

\* the cleanup goroutine's ticker fires
cleanup ==
    /\ queryCache # Null
    /\ queryCache' = [entries |-> Sweep(queryCache.entries, now)]
    /\ UNCHANGED <<mysqlClient, confirmTokens, now, nanos, clock, minted, request,
                   response, calls>>
    /\ UNCHANGED <<dispatcher, locking>>

\* time.NewTicker(c.ttl / 2) and the loop over ticker.C: half the TTL passes,
\* the ticker fires and the loop runs one round of the sweep
cleanupTicker ==
    /\ queryCache # Null
    /\ now < MaxTicks * TickMinutes
    /\ now' = now + TTLCache \div 2
    /\ queryCache' = [entries |-> Sweep(queryCache.entries, now')]
    /\ clock' = (IF clock = "held" THEN "moved" ELSE clock)
    /\ UNCHANGED <<mysqlClient, confirmTokens, nanos, minted, request,
                   response, calls>>
    /\ UNCHANGED <<dispatcher, locking>>

\* handleQueryTool after the validation: the cache, then the database
RunQuery(query) ==
    LET got == IF queryCache = Null THEN [found |-> FALSE, rows |-> <<>>]
               ELSE Get(queryCache.entries, query, now)
        looked == IF queryCache = Null THEN <<>>
                  ELSE <<Call("cache.Get", query, got.found)>>
    IN  IF got.found
        THEN /\ Return(ResultResponse([rows |-> got.rows, cached |-> TRUE]),
                       looked, confirmTokens)
             /\ UNCHANGED queryCache
        ELSE \E o \in Query(query) :
                IF o.err
                THEN /\ Return(ErrorResponse(-32603, "Query failed"),
                               looked \o o.calls, confirmTokens)
                     /\ UNCHANGED queryCache
                ELSE /\ Return(ResultResponse([rows |-> o.val,
                                               cached |-> FALSE]),
                               looked \o o.calls \o
                                   (IF queryCache = Null THEN <<>>
                                    ELSE <<Call("cache.Set", query, TRUE)>>),
                               confirmTokens)
                     /\ IF queryCache = Null THEN UNCHANGED queryCache
                        ELSE \E entries \in Set(queryCache.entries, query,
                                                 o.val, now) :
                                queryCache' = [entries |-> entries]

\* the message for a statement the query tool does not take
QueryToolMessage(operation) ==
    "This tool only supports SELECT queries. For " \o operation \o
    " operations, please use the 'execute' tool instead. Use the 'execute' tool with dry_run=true first to preview changes before executing data modification queries."

\* handleQueryTool, reached through handleToolsCall, which answers with
\* its own error while the client is nil
handleQueryTool ==
    \E query \in Queries :
        /\ mysqlClient # "nil"
        /\ request' = [tool |-> "query", sql |-> query, dry_run |-> "absent",
                       confirm_token |-> ""]
        /\ UNCHANGED <<mysqlClient, now, nanos, clock, minted>>
        /\ IF query = ""
           THEN /\ Return(ErrorResponse(-32602, "Query parameter is required"),
                          <<>>, confirmTokens)
                /\ UNCHANGED queryCache
           ELSE IF ~IsSelect[query]
           THEN /\ Return(ErrorResponse(-32602,
                              QueryToolMessage(OperationOf[query])),
                          <<>>, confirmTokens)
                /\ UNCHANGED queryCache
           ELSE RunQuery(query)

\* the analyze flag as sent: absent, true or false
AnalyzeArgs == {"absent", "true", "false"}

\* gjson .Bool() of the analyze option
AnalyzeOf(analyze) == analyze = "true"

\* regexp (?i)UPDATE\s+(\S+)\s+SET tried at index i: [ok, table]
ExplainUpdateAt(query, i) ==
    LET up == ToUpper(query)
        t == WsEnd(query, i + 6)
        te == NonSpaceEnd(query, t)
        st == WsEnd(query, te)
    IN  IF /\ HasPrefixAt(up, i, "UPDATE")
           /\ t > i + 6
           /\ te > t
           /\ st > te
           /\ HasPrefixAt(up, st, "SET")
        THEN [ok |-> TRUE, table |-> SubSeq(query, t, te - 1)]
        ELSE [ok |-> FALSE, table |-> ""]

\* regexp (?i)DELETE\s+FROM\s+(\S+) tried at index i: [ok, table]
ExplainDeleteAt(query, i) ==
    LET up == ToUpper(query)
        f == WsEnd(query, i + 6)
        t == WsEnd(query, f + 4)
        te == NonSpaceEnd(query, t)
    IN  IF /\ HasPrefixAt(up, i, "DELETE")
           /\ f > i + 6
           /\ HasPrefixAt(up, f, "FROM")
           /\ t > f + 4
           /\ te > t
        THEN [ok |-> TRUE, table |-> SubSeq(query, t, te - 1)]
        ELSE [ok |-> FALSE, table |-> ""]

\* the suggestion based on operation type
ExplainSuggestion(operation, query) ==
    LET upd == {i \in 1..Len(query) : ExplainUpdateAt(query, i).ok}
        del == {i \in 1..Len(query) : ExplainDeleteAt(query, i).ok}
    IN  IF operation = "UPDATE"
        THEN IF upd = {} THEN ""
             ELSE "To analyze UPDATE performance, try: SELECT * FROM " \o
                  ExplainUpdateAt(query,
                      CHOOSE i \in upd : \A j \in upd : i <= j).table \o
                  " WHERE <your conditions>"
        ELSE IF operation = "DELETE"
        THEN IF del = {} THEN ""
             ELSE "To analyze DELETE performance, try: SELECT * FROM " \o
                  ExplainDeleteAt(query,
                      CHOOSE i \in del : \A j \in del : i <= j).table \o
                  " WHERE <your conditions>"
        ELSE IF operation = "INSERT"
        THEN "To analyze INSERT performance, examine the table structure with 'schema <table>' or analyze a SELECT on the target table"
        ELSE "EXPLAIN ANALYZE can only be used with SELECT queries as it executes the query"

\* the message for EXPLAIN ANALYZE of a statement that is not taken for a
\* SELECT
ExplainAnalyzeMessage(operation, query) ==
    "EXPLAIN ANALYZE cannot be used with " \o operation \o
    " queries as it would execute the modification. " \o
    "EXPLAIN ANALYZE actually executes the query, so for safety it's restricted to SELECT queries only. " \o
    ExplainSuggestion(operation, query) \o ". " \o
    "Alternative: Use EXPLAIN (without ANALYZE) to see the execution plan without running the query."

\* the statement sent to the database for the explain tool
ExplainQuery(analyze, query) ==
    (IF analyze THEN "EXPLAIN ANALYZE" ELSE "EXPLAIN") \o " " \o query

\* handleExplainTool, reached through handleToolsCall, which answers with
\* its own error while the client is nil
handleExplainTool ==
    \E query \in Queries, analyze \in AnalyzeArgs :
        /\ mysqlClient # "nil"
        /\ request' = [tool |-> "explain", sql |-> query,
                       dry_run |-> "absent", confirm_token |-> "",
                       analyze |-> analyze]
        /\ UNCHANGED <<mysqlClient, queryCache, now, nanos, clock, minted>>
        /\ IF query = ""
           THEN Return(ErrorResponse(-32602,
                           "Missing required parameter: query"),
                       <<>>, confirmTokens)
           ELSE IF AnalyzeOf(analyze) /\ ~IsSelect[query]
           THEN Return(ErrorResponse(-32602,
                           ExplainAnalyzeMessage(OperationOf[query], query)),
                       <<>>, confirmTokens)
           ELSE \E o \in Query(ExplainQuery(AnalyzeOf(analyze), query)) :
                   IF o.err
                   THEN Return(ErrorResponse(-32603,
                                   "Failed to explain query"),
                               o.calls, confirmTokens)
                   ELSE Return(ResultResponse([rows |-> o.val]),
                               o.calls, confirmTokens)

(***************************************************************************)
(* The schema and tables tools.                                            *)
(***************************************************************************)
\* the table names sent to the schema tool
Tables == {"", "t"}

\* strings.ReplaceAll(tableName, one backtick, two backticks)
RECURSIVE EscapeBackticks(_)
EscapeBackticks(s) ==
    IF s = "" THEN ""
    ELSE (IF Char(s, 1) = Backtick THEN Backtick \o Backtick ELSE Char(s, 1))
         \o EscapeBackticks(SubSeq(s, 2, Len(s)))

\* Client.GetTableSchema
GetTableSchema(tableName) ==
    Query("DESCRIBE " \o Backtick \o EscapeBackticks(tableName) \o Backtick)

\* Client.GetTables: the query, then the scan of the rows
GetTables ==
    {Outcome(TRUE, <<>>, <<Call("db.Query", "SHOW TABLES", FALSE)>>)} \cup
    {Outcome(err, IF err THEN <<>> ELSE tables,
             <<Call("db.Query", "SHOW TABLES", TRUE)>>) :
        err \in BOOLEAN, tables \in {<<>>, <<"t">>}}

\* handleSchemaTool, reached through handleToolsCall
handleSchemaTool ==
    \E table \in Tables :
        /\ mysqlClient # "nil"
        /\ request' = [tool |-> "schema", sql |-> table,
                       dry_run |-> "absent", confirm_token |-> ""]
        /\ UNCHANGED <<mysqlClient, queryCache, now, nanos, clock, minted>>
        /\ IF table = ""
           THEN Return(ErrorResponse(-32602, "Table parameter is required"),
                       <<>>, confirmTokens)
           ELSE \E o \in GetTableSchema(table) :
                   IF o.err
                   THEN Return(ErrorResponse(-32603, "Failed to get schema"),
                               o.calls, confirmTokens)
                   ELSE Return(ResultResponse([rows |-> o.val]),
                               o.calls, confirmTokens)

\* handleTablesTool, reached through handleToolsCall
handleTablesTool ==
    /\ mysqlClient # "nil"
    /\ request' = [tool |-> "tables", sql |-> "", dry_run |-> "absent",
                   confirm_token |-> ""]
    /\ UNCHANGED <<mysqlClient, queryCache, now, nanos, clock, minted>>
    /\ \E o \in GetTables :
          IF o.err
          THEN Return(ErrorResponse(-32603, "Failed to get tables"),
                      o.calls, confirmTokens)
          ELSE Return(ResultResponse([tables |-> o.val]),
                      o.calls, confirmTokens)

(***************************************************************************)
(* The dispatcher: Start's scan loop, handleRequest and handleToolsCall.   *)
(***************************************************************************)
\* the number of lines the scanner is given
MaxLines == 2

\* bufio.MaxScanTokenSize, the limit of the scanner Start reads with: a
\* line of that many bytes or more, its end-of-line marker not counted, ends
\* the scan with bufio.ErrTooLong
MaxScanTokenSize == 65536

\* the lengths of the lines sent, in bytes
LineSizes == {MaxScanTokenSize - 1, MaxScanTokenSize}

\* Request.ID as sent: absent or null, a string, or a number written in
\* decimal digits (a whole number of at most 16 digits)
IDs ==
    {Null,
     [type |-> "number", text |-> "1"],
     [type |-> "number", text |-> "9007199254740993"]}

\* Request.Method as sent
Methods == {"initialize", "tools/list", "tools/call", "notifications/initialized"}

\* Request.Params as sent to tools/call: absent, or naming a tool
ParamsSent == {"absent", "query", "execute", "schema", "tables", "explain", "nope"}

\* the input lines
Lines ==
    {[kind |-> "empty", size |-> 0]} \cup
    {[kind |-> "malformed", size |-> n] : n \in LineSizes} \cup
    {[kind |-> "request", size |-> n, id |-> id, method |-> m,
      params |-> IF m = "tools/call" THEN ps ELSE "absent"] :
        n \in LineSizes, id \in IDs, m \in Methods, ps \in ParamsSent}

\* n in 8 digits
Pad8(n) == SubSeq("00000000", 1, 8 - Len(ItoaNat(n))) \o ItoaNat(n)

\* a whole number of at most 16 digits after json.Unmarshal into
\* interface{} (a float64, rounded to the nearest one, ties to the even
\* mantissa) and json.Marshal of that float64
Float64RoundTrip(text) ==
    LET hi == ScanDigits(SubSeq(text, 1, 8), 1, 0)
        lo == ScanDigits(SubSeq(text, 9, 16), 1, 0)
        exact == \/ hi < 90071992
                 \/ hi = 90071992 /\ lo <= 54740992
                 \/ lo % 2 = 0
        r == IF lo % 4 = 1 THEN lo - 1 ELSE lo + 1
    IN  IF Len(text) <= 15 \/ exact THEN text
        ELSE IF r = 100000000 THEN ItoaNat(hi + 1) \o "00000000"
        ELSE ItoaNat(hi) \o Pad8(r)

\* the id a response line shows for the id a request line carried
EchoID(id) ==
    IF id = Null THEN Null
    ELSE IF id.type = "number"
    THEN [type |-> "number", text |-> Float64RoundTrip(id.text)]
    ELSE id

\* json.Marshal of a Response: result and error are left out when nil
Marshal(id, resp) ==
    [id |-> EchoID(id),
     fields |-> {"jsonrpc", "id"}
                \cup (IF resp.Result # Null THEN {"result"} ELSE {})
                \cup (IF resp.Error # Null THEN {"error"} ELSE {}),
     code |-> IF resp.Error # Null THEN resp.Error.Code ELSE 0]

\* sendResponse
sendResponse(id, resp) == output' = Append(output, Marshal(id, resp))

\* a response made by the dispatcher itself: no handler runs, nothing of the
\* server's state is touched
Answer(id, resp) ==
    /\ request' = Null
    /\ Return(resp, <<>>, confirmTokens)
    /\ UNCHANGED <<mysqlClient, queryCache, now, nanos, clock, minted>>
    /\ sendResponse(id, resp)

\* sendError
sendError(id, code, message) == Answer(id, ErrorResponse(code, message))

\* the statement texts sent to the query, execute and explain tools in
\* the lines the dispatcher reads
Sent == {"", "SELECT 1", "DELETE FROM t", "DROP TABLE t"}

handleInitialize(req) ==
    Answer(req.id, ResultResponse([protocolVersion |-> "2024-11-05"]))

handleToolsList(req) ==
    Answer(req.id, ResultResponse([tools |-> ParamsSent \ {"absent", "nope"}]))

handleToolsCall(req) ==
    IF mysqlClient = "nil"
    THEN Answer(req.id,
                ErrorResponse(-32603, "MySQL connection not established"))
    ELSE IF req.params = "absent"
    THEN Answer(req.id, ErrorResponse(-32602, "Invalid params"))
    ELSE IF req.params = "query"
    THEN handleQueryTool /\ request'.sql \in Sent /\ sendResponse(req.id, response')
    ELSE IF req.params = "execute"
    THEN handleExecuteTool /\ request'.sql \in Sent /\ sendResponse(req.id, response')
    ELSE IF req.params = "schema"
    THEN handleSchemaTool /\ sendResponse(req.id, response')
    ELSE IF req.params = "tables"
    THEN handleTablesTool /\ sendResponse(req.id, response')
    ELSE IF req.params = "explain"
    THEN handleExplainTool /\ request'.sql \in Sent /\ sendResponse(req.id, response')
    ELSE Answer(req.id,
                ErrorResponse(-32602, "Unknown tool: " \o req.params))

handleRequest(req) ==
    IF req.method = "initialize" THEN handleInitialize(req)
    ELSE IF req.method = "tools/list" THEN handleToolsList(req)
    ELSE IF req.method = "tools/call" THEN handleToolsCall(req)
    ELSE Answer(req.id, ErrorResponse(-32601, "Method not found"))

\* one turn of Start's loop: scanner.Scan() and the body
Start ==
    \E line \in Lines :
        /\ scanning
        /\ Len(input) < MaxLines
        /\ input' = Append(input, line)
        /\ IF line.size >= MaxScanTokenSize
           THEN /\ scanning' = FALSE
                /\ UNCHANGED <<mysqlClient, confirmTokens, queryCache, now,
                               nanos, clock, minted, request, response, calls,
                               output>>
           ELSE /\ scanning' = TRUE
                /\ IF line.kind = "empty"
                   THEN UNCHANGED <<mysqlClient, confirmTokens, queryCache,
                                    now, nanos, clock, minted, request, response,
                                    calls, output>>
                   ELSE IF line.kind = "malformed"
                   THEN sendError(Null, -32700, "Parse error")
                   ELSE handleRequest(line)

(***************************************************************************)
(* The cache on its own: Set, Get and Clear called directly.               *)
(***************************************************************************)
\* the keys the cache is called with
CacheKeys == {"SELECT 1", "select 2", "SELECT 3"}

\* QueryCache.Set(query, result) called; request keeps what the call found:
\* whether the map was at capacity and whether it held the key
SetCalled(query, result) ==
    /\ queryCache # Null
    /\ request' = [tool |-> "cache.Set", sql |-> query, result |-> result,
                   full |-> Cardinality(DOMAIN queryCache.entries)
                                >= MaxEntries,
                   present |-> query \in DOMAIN queryCache.entries]
    /\ \E entries \in Set(queryCache.entries, query, result, now) :
          queryCache' = [entries |-> entries]
    /\ response' = Null
    /\ calls' = <<>>
    /\ UNCHANGED <<mysqlClient, confirmTokens, now, nanos, clock, minted>>
    /\ UNCHANGED <<dispatcher, locking>>

QueryCacheSet == \E query \in CacheKeys, result \in ResultSets :
                     SetCalled(query, result)

\* QueryCache.Get(query) called; response keeps what it returned
GetCalled(query) ==
    /\ queryCache # Null
    /\ request' = [tool |-> "cache.Get", sql |-> query]
    /\ response' = Get(queryCache.entries, query, now)
    /\ queryCache' = [entries |-> GetLeaves(queryCache.entries, query, now)]
    /\ calls' = <<>>
    /\ UNCHANGED <<mysqlClient, confirmTokens, now, nanos, clock, minted>>
    /\ UNCHANGED <<dispatcher, locking>>

QueryCacheGet == \E query \in CacheKeys : GetCalled(query)

\* QueryCache.Clear
Clear ==
    /\ queryCache # Null
    /\ queryCache' = [entries |-> EmptyMap]
    /\ request' = [tool |-> "cache.Clear", sql |-> ""]
    /\ response' = Null
    /\ calls' = <<>>
    /\ UNCHANGED <<mysqlClient, confirmTokens, now, nanos, clock, minted>>
    /\ UNCHANGED <<dispatcher, locking>>

(***************************************************************************)
(* The goroutines and QueryCache.mu: each method of the cache in two       *)
(* steps, taking the lock and returning, and the execute tool, which is    *)
(* what reads and writes the confirmation store, entered and left.         *)
(***************************************************************************)
\* a Lock that returns whoever holds the lock
LockAlways(m) == TRUE

\* sync.RWMutex.RLock returns while no goroutine holds the lock for writing
RLockReturns(m) == m.writer = "none"

\* sync.RWMutex.Lock returns while no goroutine holds the lock at all
LockReturns(m) == m.writer = "none" /\ m.readers = {}

\* Get: c.mu.RLock()
GetRLock ==
    \E query \in CacheKeys :
        /\ queryCache # Null
        /\ section["main"] = Idle
        /\ RLockReturns(mu)
        /\ mu' = [mu EXCEPT !.readers = @ \cup {"main"}]
        /\ section' = [section EXCEPT
                          !["main"] = Inside("queryCache", "Get", query, <<>>)]
        /\ UNCHANGED <<mysqlClient, confirmTokens, queryCache, now, nanos,
                       clock, minted, request, response, calls>>
        /\ UNCHANGED dispatcher

\* Get: the lookup, and the deferred c.mu.RUnlock()
GetReturn ==
    /\ section["main"].op = "Get"
    /\ request' = [tool |-> "cache.Get", sql |-> section["main"].sql]
    /\ response' = Get(queryCache.entries, section["main"].sql, now)
    /\ calls' = <<>>
    /\ mu' = [mu EXCEPT !.readers = @ \ {"main"}]
    /\ section' = [section EXCEPT !["main"] = Idle]
    /\ UNCHANGED <<mysqlClient, confirmTokens, queryCache, now, nanos, clock,
                   minted>>
    /\ UNCHANGED dispatcher

\* Set: c.mu.Lock()
SetLock ==
    \E query \in CacheKeys, result \in ResultSets :
        /\ queryCache # Null
        /\ section["main"] = Idle
        /\ LockReturns(mu)
        /\ mu' = [mu EXCEPT !.writer = "main"]
        /\ section' = [section EXCEPT
                          !["main"] = Inside("queryCache", "Set", query, result)]
        /\ UNCHANGED <<mysqlClient, confirmTokens, queryCache, now, nanos,
                       clock, minted, request, response, calls>>
        /\ UNCHANGED dispatcher

\* Set: the eviction and the insert, and the deferred c.mu.Unlock()
SetReturn ==
    /\ section["main"].op = "Set"
    /\ request' = [tool |-> "cache.Set", sql |-> section["main"].sql,
                   result |-> section["main"].rows,
                   full |-> Cardinality(DOMAIN queryCache.entries)
                                >= MaxEntries,
                   present |-> section["main"].sql \in DOMAIN queryCache.entries]
    /\ \E entries \in Set(queryCache.entries, section["main"].sql,
                          section["main"].rows, now) :
          queryCache' = [entries |-> entries]
    /\ response' = Null
    /\ calls' = <<>>
    /\ mu' = [mu EXCEPT !.writer = "none"]
    /\ section' = [section EXCEPT !["main"] = Idle]
    /\ UNCHANGED <<mysqlClient, confirmTokens, now, nanos, clock, minted>>
    /\ UNCHANGED dispatcher

\* cleanup, on a tick: c.mu.Lock()
cleanupLock ==
    /\ queryCache # Null
    /\ section["cleanup"] = Idle
    /\ LockReturns(mu)
    /\ mu' = [mu EXCEPT !.writer = "cleanup"]
    /\ section' = [section EXCEPT
                      !["cleanup"] = Inside("queryCache", "cleanup", "", <<>>)]
    /\ UNCHANGED <<mysqlClient, confirmTokens, queryCache, now, nanos, clock,
                   minted, request, response, calls>>
    /\ UNCHANGED dispatcher

\* cleanup: the round of the sweep, and c.mu.Unlock()
cleanupUnlock ==
    /\ section["cleanup"].op = "cleanup"
    /\ queryCache' = [entries |-> Sweep(queryCache.entries, now)]
    /\ mu' = [mu EXCEPT !.writer = "none"]
    /\ section' = [section EXCEPT !["cleanup"] = Idle]
    /\ UNCHANGED <<mysqlClient, confirmTokens, now, nanos, clock, minted,
                   request, response, calls>>
    /\ UNCHANGED dispatcher

\* the statements sent to the execute tool while the goroutines are watched
LockStatements == {"", "DROP TABLE t"}

\* handleExecuteTool is entered: it takes no lock
ExecuteEnter ==
    /\ mysqlClient # "nil"
    /\ section["main"] = Idle
    /\ section' = [section EXCEPT
                      !["main"] = Inside("confirmTokens", "handleExecuteTool",
                                         "", <<>>)]
    /\ UNCHANGED <<mysqlClient, confirmTokens, queryCache, now, nanos, clock,
                   minted, request, response, calls, mu>>
    /\ UNCHANGED dispatcher

\* handleExecuteTool looks up, deletes, inserts and sweeps, and returns
ExecuteReturn ==
    /\ section["main"].op = "handleExecuteTool"
    /\ handleExecuteTool
    /\ request'.sql \in LockStatements
    /\ section' = [section EXCEPT !["main"] = Idle]
    /\ UNCHANGED mu
    /\ UNCHANGED dispatcher

(***************************************************************************)
(* The classifier applied to statement texts.                              *)
(***************************************************************************)
\* what stands before the first keyword: white space, line comments and
\* block comments
Leads ==
    {"", "  ", "-- c\n", "-- a\n-- b\n", "-- a\n  -- b\n", "/* c */",
     "/* c */ ", "/* a *//* b */", "/* a */ /* b */", "/*\n*/"}

\* first keywords, in several letter cases
Words ==
    {"INSERT", "UPDATE", "delete", "Create", "DROP", "ALTER", "TRUNCATE",
     "REPLACE", "SELECT", "SHOW"}

\* the statement texts the classifier is applied to
Texts ==
    {lead \o word \o " x" : lead \in Leads, word \in Words} \cup
    {"/**/SELECT '*/DROP'", "DROPPED"}

\* detectQueryOperation of each text
DetectedIn == [text \in Texts |-> detectQueryOperation(text)]

\* isSelectQuery of each text
SelectIn == [text \in Texts |-> isSelectQuery(text)]

\* detectQueryOperation and isSelectQuery applied to a text
Classify ==
    \E text \in Texts :
        /\ request' = [tool |-> "detectQueryOperation", sql |-> text]
        /\ response' = [operation |-> DetectedIn[text],
                        isSelect |-> SelectIn[text]]
        /\ calls' = <<>>
        /\ UNCHANGED <<mysqlClient, confirmTokens, queryCache, now, nanos,
                       clock, minted>>
        /\ UNCHANGED <<dispatcher, locking>>

\* time passes
Tick ==
    /\ now < MaxTicks * TickMinutes
    /\ now' = now + TickMinutes
    /\ clock' = (IF clock = "held" THEN "moved" ELSE clock)
    /\ UNCHANGED <<mysqlClient, confirmTokens, queryCache, nanos, minted,
                   request, response, calls>>
    /\ UNCHANGED <<dispatcher, locking>>

\* the execute tool and the clock
Next ==
    \/ handleExecuteTool /\ UNCHANGED <<dispatcher, locking>>
    \/ Tick

Spec == Init /\ [][Next]_vars

\* the statements sent to the execute tool where the clock is coarse
MintStatements == {"", "DELETE FROM t", "DROP TABLE t"}

\* the server started where two dry runs can get the same UnixNano reading
InitCoarse ==
    /\ mysqlClient \in {"nil", "connected"}
    /\ confirmTokens = EmptyMap
    /\ queryCache = IF mysqlClient = "nil" THEN Null
                    ELSE [entries |-> EmptyMap]
    /\ now = 0
    /\ nanos = 0
    /\ clock = "moved"
    /\ minted = {}
    /\ request = Null
    /\ response = Null
    /\ calls = <<>>
    /\ scanning = TRUE
    /\ input = <<>>
    /\ output = <<>>
    /\ mu = [writer |-> "none", readers |-> {}]
    /\ section = [g \in Goroutines |-> Idle]

\* the execute tool and a coarse clock
NextMint ==
    \/ handleExecuteTool /\ request'.sql \in MintStatements
                         /\ UNCHANGED <<dispatcher, locking>>
    \/ Tick

SpecMint == InitCoarse /\ [][NextMint]_vars

\* the previews of the execute tool over every branch of the estimator, and
\* the clock
NextEstimate ==
    \/ PreviewCall /\ UNCHANGED <<dispatcher, locking>>
    \/ Tick

SpecEstimate == Init /\ [][NextEstimate]_vars

\* the execute tool and a clock that keeps going.  Time passes whatever the
\* server does; a request comes only when a client sends one, so no request
\* is ever bound to come.  The server has no goroutine, ticker or timer that
\* touches confirmTokens: nothing but a request's handler acts on the store.
NextAbandon ==
    \/ handleExecuteTool /\ request'.sql \in MintStatements
                         /\ UNCHANGED <<dispatcher, locking>>
    \/ Tick

SpecAbandon == Init /\ [][NextAbandon]_vars /\ WF_vars(Tick)

\* the query and explain tools, the cache and the clock
NextQuery ==
    \/ handleQueryTool /\ UNCHANGED <<dispatcher, locking>>
    \/ handleExplainTool /\ UNCHANGED <<dispatcher, locking>>
    \/ cleanup
    \/ Tick

SpecQuery == Init /\ [][NextQuery]_vars

\* the cache called directly, its sweep and the clock
NextCache ==
    \/ QueryCacheSet
    \/ QueryCacheGet
    \/ Clear
    \/ cleanup
    \/ Tick

SpecCache == Init /\ [][NextCache]_vars

\* the cache called directly while time passes by the periods of its ticker
NextTicker ==
    \/ QueryCacheSet
    \/ QueryCacheGet
    \/ cleanupTicker

SpecTicker == Init /\ [][NextTicker]_vars

\* the reads a client repeats around a mutation
RepeatedReads == {"SELECT 1"}

\* the execute tool and the query tool side by side, and the clock
NextStale ==
    \/ handleExecuteTool /\ request'.sql \in LockStatements
                         /\ UNCHANGED <<dispatcher, locking>>
    \/ handleQueryTool /\ request'.sql \in RepeatedReads
                       /\ UNCHANGED <<dispatcher, locking>>
    \/ Tick

SpecStale == Init /\ [][NextStale]_vars

\* the two goroutines: main in the cache's Get and Set and in the execute
\* tool, cleanup in its sweep
NextLocks ==
    \/ GetRLock
    \/ GetReturn
    \/ SetLock
    \/ SetReturn
    \/ cleanupLock
    \/ cleanupUnlock
    \/ ExecuteEnter
    \/ ExecuteReturn

SpecLocks == Init /\ [][NextLocks]_vars

\* the classifier on its own
NextClassify == Classify

SpecClassify == Init /\ [][NextClassify]_vars

\* the server: the dispatcher with every tool, the cache's sweep and the
\* clock
NextServe ==
    \/ Start /\ UNCHANGED locking
    \/ cleanup
    \/ Tick

SpecServe == Init /\ [][NextServe]_vars

(***************************************************************************)
(* The statement as the database reads it: white space and comments ("--"  *)
(* and "#" to the end of the line, "/*" to the next "*/", over any number  *)
(* of lines) are skipped, and the first word is the statement's kind.      *)
(***************************************************************************)
\* the index of the first "*/" at or after i (Len(s) + 1 when there is none)
RECURSIVE CommentEnd(_, _)
CommentEnd(s, i) ==
    IF i > Len(s) THEN Len(s) + 1
    ELSE IF HasPrefixAt(s, i, "*/") THEN i
    ELSE CommentEnd(s, i + 1)

\* the index of the first character after the leading white space and
\* comments
RECURSIVE SkipLeading(_, _)
SkipLeading(s, i) ==
    LET j == WsEnd(s, i)
        nl == NewlineFrom(s, j)
        e == CommentEnd(s, j + 2)
    IN  IF HasPrefixAt(s, j, "--") \/ HasPrefixAt(s, j, "#")
        THEN IF nl > Len(s) THEN Len(s) + 1 ELSE SkipLeading(s, nl + 1)
        ELSE IF HasPrefixAt(s, j, "/*")
        THEN IF e > Len(s) THEN Len(s) + 1 ELSE SkipLeading(s, e + 2)
        ELSE j

IsLetter(c) == \E i \in 1..26 : Char(UpperLetters, i) = c

\* the index after the run of letters that starts at i
RECURSIVE WordEnd(_, _)
WordEnd(s, i) ==
    IF i <= Len(s) /\ IsLetter(Char(s, i)) THEN WordEnd(s, i + 1) ELSE i

\* the first keyword of a statement, in upper case
FirstKeyword(sql) ==
    LET up == ToUpper(sql)
        b == SkipLeading(up, 1)
    IN  SubSeq(up, b, WordEnd(up, b) - 1)

\* the first keyword of each text the classifier is applied to
FirstKeywordIn == [text \in Texts |-> FirstKeyword(text)]

\* the first keyword of each statement of the model
KindOf == [s \in Queries \cup EstimateStatements |-> FirstKeyword(s)]

(***************************************************************************)
(* The vocabulary of the properties.                                       *)
(***************************************************************************)
\* the step is a call of the execute tool (the clock's step is the only
\* other one)
ExecuteCall == now' = now /\ request' # Null /\ request'.tool = "execute"

\* the last call was one of the execute tool
ExecuteCalled == request # Null /\ request.tool = "execute"

\* the last call was one of the query tool
QueryCalled == request # Null /\ request.tool = "query"

\* among the calls cs, Client.Execute sent a statement to the database for
\* execution outside any transaction
Executed(cs) == \E i \in DOMAIN cs : cs[i].method = "db.Exec"

\* the execute tool takes the statement for a write: it is there and the
\* tool's classifier does not take it for a read
TakenForWrite(sql) == sql # "" /\ ~IsSelect[sql]

\* the record of token is in the store and at most TTLConfirm (5 minutes) old
Live(token) ==
    /\ token \in DOMAIN confirmTokens
    /\ now - confirmTokens[token].CreatedAt <= TTLConfirm

\* a token that has left the store does not come back
NoRevival == \A t \in minted \ DOMAIN confirmTokens : t \notin DOMAIN confirmTokens'

C2_DryRunSendsNothingItCannotRollBack ==
    (ExecuteCalled /\ request.dry_run \in {"absent", "true"}) =>
        /\ ~Executed(calls)
        /\ \A i \in DOMAIN calls :
              calls[i].method = "tx.Exec" =>
                 /\ KindOf[calls[i].sql] \notin nonTransactionalStatements
                 /\ \E j \in DOMAIN calls :
                       j > i /\ calls[j].method = "tx.Rollback"

\* C3: a token minted by a dry run is redeemed exactly once: the first
\* redemption with the previewed statement within 5 minutes sends the
\* statement to the database and removes the token; every later redemption
\* with it is answered 'Invalid or expired confirmation token' and executes
\* nothing; a token that has left the store never returns
C3_RedeemedExactlyOnce ==
    [][(ExecuteCall /\ request'.dry_run = "false"
           /\ request'.confirm_token \in minted
           /\ TakenForWrite(request'.sql)) =>
          /\ (/\ Live(request'.confirm_token)
              /\ confirmTokens[request'.confirm_token].SQL = request'.sql)
                => /\ Executed(calls')
                   /\ request'.confirm_token \notin DOMAIN confirmTokens'
          /\ request'.confirm_token \notin DOMAIN confirmTokens
                => /\ response' =
                        ErrorResponse(-32602,
                            "Invalid or expired confirmation token")
                   /\ calls' = <<>>
          /\ NoRevival
      ]_vars

\* C4: when the execution of a redeemed statement fails in the database,
\* the token is removed from the confirmation store all the same
C4_TokenRemovedWhenExecutionFails ==
    (ExecuteCalled /\ calls = <<Call("db.Exec", request.sql, FALSE)>>) =>
        request.confirm_token \notin DOMAIN confirmTokens

\* the step redeems a token of the store with a statement other than the
\* one previewed, while the record is at most 5 minutes old
MismatchedRedemption ==
    /\ ExecuteCall
    /\ request'.dry_run = "false"
    /\ request'.sql # ""
    /\ Live(request'.confirm_token)
    /\ confirmTokens[request'.confirm_token].SQL # request'.sql

\* the mismatch error, nothing executed, the store as it was
MismatchAnswer ==
    /\ response' =
          ErrorResponse(-32602, "SQL does not match the confirmation token")
    /\ calls' = <<>>
    /\ confirmTokens' = confirmTokens

\* C5, as stated: redeeming a live token with any statement text other than
\* the one previewed is answered with the mismatch error, executes nothing
\* and leaves the token in the store
C5_AnyOtherTextIsMismatch == [][MismatchedRedemption => MismatchAnswer]_vars

\* C5, amended: redeeming a live token with another statement text that
\* the execute tool does not classify as a read is answered with the mismatch error, executes nothing and leaves the
\* store as it was, so the token can still be redeemed with the original
\* statement
C5_OtherWriteIsMismatch ==
    [][(MismatchedRedemption /\ TakenForWrite(request'.sql))
          => MismatchAnswer]_vars

\* C5, its case: a mismatch was answered and the token is still in the store
C5_MismatchAnswered ==
    /\ ExecuteCalled
    /\ response =
          ErrorResponse(-32602, "SQL does not match the confirmation token")
    /\ request.confirm_token \in DOMAIN confirmTokens
    /\ confirmTokens[request.confirm_token].SQL # request.sql

\* the step redeems, with some statement, a token whose record is older
\* than 5 minutes
ExpiredRedemption ==
    /\ ExecuteCall
    /\ request'.dry_run = "false"
    /\ request'.sql # ""
    /\ request'.confirm_token \in DOMAIN confirmTokens
    /\ now - confirmTokens[request'.confirm_token].CreatedAt > TTLConfirm

\* the 'expired' error, nothing executed, the record removed and no other
\* record touched; removed records stay removed
ExpiredAnswer ==
    /\ response' =
          ErrorResponse(-32602,
              "Confirmation token has expired. Please run with dry_run=true again.")
    /\ calls' = <<>>
    /\ confirmTokens' = Delete(confirmTokens, request'.confirm_token)
    /\ NoRevival

\* C6, as stated: every redemption attempt with a token whose record is
\* older than 5 minutes is answered with the 'expired' error, executes
\* nothing and removes the record
C6_ExpiredNeverHonored == [][ExpiredRedemption => ExpiredAnswer]_vars

\* C6, amended: a token whose record is older than 5 minutes is never
\* honored (no call with it executes anything), and a redemption attempt
\* with a statement the execute tool does not classify as a read is
\* answered with the 'expired' error and removes the record, swept or not; a removed record
\* does not return, so the token is answered as invalid from then on
C6_ExpiredWriteNeverHonored ==
    [][ExpiredRedemption =>
          /\ ~Executed(calls')
          /\ TakenForWrite(request'.sql) => ExpiredAnswer
      ]_vars

\* C6, its case: an expired token was refused and its record removed
C6_ExpiredAnswered ==
    /\ ExecuteCalled
    /\ response # Null
    /\ response.Error # Null
    /\ response.Error.Message =
          "Confirmation token has expired. Please run with dry_run=true again."
    /\ request.confirm_token \in minted \ DOMAIN confirmTokens

UnknownTokenCall ==
    /\ ExecuteCall
    /\ request'.dry_run = "false"
    /\ request'.sql # ""
    /\ request'.confirm_token \notin DOMAIN confirmTokens

\* the error of the missing, respectively the unknown token, no call to
\* the database, the store as it was
UnknownTokenAnswer ==
    /\ response' =
          ErrorResponse(-32602,
              IF request'.confirm_token = ""
              THEN "confirm_token is required when dry_run=false"
              ELSE "Invalid or expired confirmation token")
    /\ calls' = <<>>
    /\ confirmTokens' = confirmTokens

\* C8, as stated: every call with dry_run=false whose confirm_token is
\* missing or unknown is answered 'confirm_token is required when
\* dry_run=false', respectively 'Invalid or expired confirmation token',
\* calls the database not at all and leaves the store unchanged
C8_UnknownTokenRejected == [][UnknownTokenCall => UnknownTokenAnswer]_vars

\* C8, amended: every call with dry_run=false whose confirm_token is
\* missing or unknown is rejected with an error, calls the database not at
\* all and leaves the store unchanged; when its statement is not one the
\* execute tool classifies as a read, the error is 'confirm_token is
\* required when dry_run=false', respectively 'Invalid or expired
\* confirmation token'
C8_UnknownTokenRejectedForWrites ==
    [][UnknownTokenCall =>
          /\ response' # Null
          /\ response'.Error # Null
          /\ calls' = <<>>
          /\ confirmTokens' = confirmTokens
          /\ TakenForWrite(request'.sql) => UnknownTokenAnswer
      ]_vars

\* C8, its case: a made-up token was refused while the store held a record
C8_UnknownTokenAnswered ==
    /\ ExecuteCalled
    /\ request.confirm_token = "invalid_token"
    /\ response =
          ErrorResponse(-32602, "Invalid or expired confirmation token")
    /\ confirmTokens # EmptyMap

\* C9: a statement whose first keyword is SELECT, sent to the execute tool
\* with any dry_run and confirm_token, is rejected with an error (the claim
\* adds: the one naming the 'query' tool) and no call is made to the
\* database
C9_ReadRejectedByExecute ==
    (ExecuteCalled /\ KindOf[request.sql] = "SELECT") =>
        /\ response # Null
        /\ response.Error # Null
        /\ calls = <<>>

(***************************************************************************)
(* The query tool (specification SpecQuery).                               *)
(***************************************************************************)
\* C10: a statement whose first keyword is not SELECT, sent to the query
\* tool, is rejected with the error naming the 'execute' tool and the
\* operation detected, before the cache is consulted and before any call
\* to the database
C10_NonReadRejectedByQuery ==
    (QueryCalled /\ request.sql # ""
        /\ KindOf[request.sql] # "SELECT") =>
        /\ response =
              ErrorResponse(-32602,
                  QueryToolMessage(OperationOf[request.sql]))
        /\ calls = <<>>

(***************************************************************************)
(* The explain tool (specification SpecQuery).                             *)
(***************************************************************************)
\* the last call was to the explain tool
ExplainCalled == request # Null /\ request.tool = "explain"

\* C11: the explain tool called with analyze=true on a statement whose
\* first keyword is not SELECT returns an error and makes no call to the
\* database
C11_AnalyzeOnlyReads ==
    (ExplainCalled /\ request.analyze = "true" /\ request.sql # ""
        /\ KindOf[request.sql] # "SELECT") =>
        /\ response.Error # Null
        /\ calls = <<>>

(***************************************************************************)
(* The dispatcher (specification SpecServe).                               *)
(***************************************************************************)
\* the lines read so far that are not empty
NonEmptyLines == SelectSeq(input, LAMBDA l : l.kind # "empty")

\* C12: every response line written carries exactly one of a result and an
\* error, never both and never neither
C12_ExactlyOnePayload ==
    \A i \in DOMAIN output :
        ("result" \in output[i].fields) # ("error" \in output[i].fields)

\* a result and an error have both been written, the last response being a
\* tool handler's
C12_BothShapesWritten ==
    /\ request # Null
    /\ Len(output) = 2
    /\ \E i, j \in DOMAIN output :
          /\ output[i].fields = {"jsonrpc", "id", "result"}
          /\ output[j].fields = {"jsonrpc", "id", "error"}

\* C13: each line read that is not empty has exactly one response line,
\* the responses stand in the order of the lines, and the response to a
\* request shows that request's id
C13_OneResponsePerLineInOrder ==
    /\ Len(output) = Len(NonEmptyLines)
    /\ \A i \in DOMAIN output :
          NonEmptyLines[i].kind = "request" =>
              output[i].id = NonEmptyLines[i].id

\* the line read in this step
LineRead == input'[Len(input')]

\* the response line written in this step
LineWritten == output'[Len(output')]

\* this step reads a line that is malformed, names an unknown method or
\* calls an unknown tool
OffendingLineRead ==
    /\ Len(input') = Len(input) + 1
    /\ \/ LineRead.kind = "malformed"
       \/ /\ LineRead.kind = "request"
          /\ \/ LineRead.method = "notifications/initialized"
             \/ LineRead.method = "tools/call" /\ LineRead.params = "nope"

\* the code the claim gives the line read in this step
OffendingLineCode ==
    IF LineRead.kind = "malformed" THEN -32700
    ELSE IF LineRead.method = "tools/call" THEN -32602
    ELSE -32601

\* C14: a malformed line, an unknown method and an unknown tool name are
\* answered with -32700, -32601 and -32602, the confirmation store and the
\* cache stay as they were, and the scan loop goes on
C14_OffendingLineAnsweredLoopGoesOn ==
    [][OffendingLineRead =>
          /\ Len(output') = Len(output) + 1
          /\ LineWritten.code = OffendingLineCode
          /\ confirmTokens' = confirmTokens
          /\ queryCache' = queryCache
          /\ scanning']_vars

(***************************************************************************)
(* The cache (specification SpecCache).                                    *)
(***************************************************************************)
\* the last call was QueryCache.Set
CacheSetCalled == request # Null /\ request.tool = "cache.Set"

\* C15: the cache never holds more than MaxEntries entries
C15_SizeWithinMaxEntries ==
    queryCache # Null => Cardinality(DOMAIN queryCache.entries) <= MaxEntries

\* a Set found the map at capacity and the map holds MaxEntries entries
C15_FullAfterSetAtCapacity ==
    /\ CacheSetCalled
    /\ request.full
    /\ Cardinality(DOMAIN queryCache.entries) = MaxEntries

\* C16: a Set of a key the map does not hold, with the map at capacity,
\* removes exactly one entry, one of the smallest timestamp, leaves every
\* other entry as it was and inserts the new one
C16_SingleOldestEvicted ==
    [][\A query \in CacheKeys, result \in ResultSets :
          (/\ SetCalled(query, result)
           /\ query \notin DOMAIN queryCache.entries
           /\ Cardinality(DOMAIN queryCache.entries) >= MaxEntries) =>
              \E oldestKey \in DOMAIN queryCache.entries :
                 /\ \A k \in DOMAIN queryCache.entries :
                       queryCache.entries[oldestKey].Timestamp
                           <= queryCache.entries[k].Timestamp
                 /\ DOMAIN queryCache'.entries =
                       (DOMAIN queryCache.entries \ {oldestKey})
                           \cup {query}
                 /\ \A k \in DOMAIN queryCache.entries \ {oldestKey} :
                       queryCache'.entries[k] = queryCache.entries[k]
                 /\ queryCache'.entries[query] =
                       [Result |-> result, Timestamp |-> now]]_vars

\* a Set of a new key found the map at capacity, and the map now holds the
\* new entry beside an older one
C16_NewKeySetAtCapacity ==
    /\ CacheSetCalled
    /\ request.full
    /\ ~request.present
    /\ request.sql \in DOMAIN queryCache.entries
    /\ \E k \in DOMAIN queryCache.entries :
          queryCache.entries[k].Timestamp
              < queryCache.entries[request.sql].Timestamp

\* C17: right after Set(k, v), Get(k) returns v and found
C17_GetAfterSet ==
    [][\A query \in CacheKeys, result \in ResultSets :
          SetCalled(query, result) =>
              Get(queryCache'.entries, query, now') =
                  [found |-> TRUE, rows |-> result]]_vars

\* a Set replaced the value of a key the map held, with the map at capacity,
\* and a Get of that key now returns the value set
C17_ReplacedAtCapacity ==
    /\ CacheSetCalled
    /\ request.full
    /\ request.present
    /\ Get(queryCache.entries, request.sql, now) =
          [found |-> TRUE, rows |-> request.result]

\* C18: Get returns rows only from an entry the map holds whose age is at
\* most the TTL, and not-found for an entry older than that, swept or not
C18_GetEnforcesTTL ==
    [][\A query \in CacheKeys :
          GetCalled(query) =>
              /\ response'.found =>
                    /\ query \in DOMAIN queryCache.entries
                    /\ now - queryCache.entries[query].Timestamp <= TTLCache
                    /\ response'.rows = queryCache.entries[query].Result
              /\ (/\ query \in DOMAIN queryCache.entries
                  /\ now - queryCache.entries[query].Timestamp > TTLCache) =>
                    ~response'.found]_vars

\* a Get of a key whose entry is still in the map, older than the TTL,
\* returned not-found
C18_ExpiredEntryNotFound ==
    /\ request # Null
    /\ request.tool = "cache.Get"
    /\ request.sql \in DOMAIN queryCache.entries
    /\ now - queryCache.entries[request.sql].Timestamp > TTLCache
    /\ ~response.found

(***************************************************************************)
(* Token minting (specification SpecMint).                                 *)
(***************************************************************************)
\* the step is a dry run that returned a token
TokenMinted ==
    /\ ExecuteCall
    /\ DryRunOf(request'.dry_run)
    /\ response'.Error = Null

\* C19: the token a dry run returns is none of the tokens returned before
\* it, so no dry run writes over the record of another or brings back a
\* token that has left the store
C19_TokensNeverReused ==
    [][TokenMinted => response'.Result.confirm_token \notin minted]_vars

(***************************************************************************)
(* The classifier (specification SpecClassify).                            *)
(***************************************************************************)
\* the keywords detectQueryOperation is to tell
MutationKeywords ==
    {"INSERT", "UPDATE", "DELETE", "CREATE", "DROP", "ALTER", "TRUNCATE",
     "REPLACE"}

\* C20: detectQueryOperation returns the first keyword of the text, in
\* upper case, when that keyword is one of the eight mutation keywords, and
\* UNKNOWN when it is not
C20_OperationIsFirstKeyword ==
    (request # Null /\ request.tool = "detectQueryOperation") =>
        response.operation =
            IF FirstKeywordIn[request.sql] \in MutationKeywords
            THEN FirstKeywordIn[request.sql]
            ELSE "UNKNOWN"

\* the last step applied the classifiers to a text
Classified == request # Null /\ request.tool = "detectQueryOperation"

\* C21: isSelectQuery is true exactly for the texts whose first keyword is
\* SELECT; where it is true detectQueryOperation returns UNKNOWN, and where
\* detectQueryOperation returns a mutation keyword it is false
C21_ClassifiersExclusive ==
    Classified =>
        /\ response.isSelect <=> FirstKeywordIn[request.sql] = "SELECT"
        /\ response.isSelect => response.operation = "UNKNOWN"
        /\ response.operation \in MutationKeywords => ~response.isSelect

\* a call that did not ask for execution: dry_run absent or true
DryRunAsked(req) == req.dry_run \in {"absent", "true"}

\* among the calls cs a statement was sent to the database for execution,
\* inside a transaction or outside
SentForExecution(cs) ==
    \E i \in DOMAIN cs : cs[i].method \in {"db.Exec", "tx.Exec"}

\* C22: a dry run of a DROP statement returns the estimate -1,
\* is_exact_count=false and the CRITICAL warning, creates a token and sends
\* the database nothing that mutates; redeeming a live token of a DROP
\* statement with the same text sends the statement for execution
C22_DropDryRun ==
    [][(ExecuteCall /\ KindOf[request'.sql] = "DROP") =>
          /\ DryRunAsked(request') =>
                /\ response'.Error = Null
                /\ response'.Result.affected_rows = -1
                /\ ~response'.Result.is_exact_count
                /\ response'.Result.warning = "CRITICAL: DROP"
                /\ response'.Result.confirm_token \in DOMAIN confirmTokens'
                /\ ~SentForExecution(calls')
          /\ (/\ request'.dry_run = "false"
              /\ Live(request'.confirm_token)
              /\ confirmTokens[request'.confirm_token].SQL = request'.sql)
                => Executed(calls')
      ]_vars

\* among the calls cs the probe failed: Begin or the statement inside the
\* transaction returned an error
ProbeFailed(cs) ==
    \E i \in DOMAIN cs : cs[i].method \in {"db.Begin", "tx.Exec"} /\ ~cs[i].ok

\* among the calls cs the count query of the fallback returned an error
FallbackSelectFailed(cs) ==
    \E i \in DOMAIN cs : cs[i].method = "db.Query" /\ ~cs[i].ok

\* the step is a preview by the execute tool of a statement it takes for a
\* write
PreviewStep ==
    ExecuteCall /\ DryRunAsked(request') /\ TakenForWrite(request'.sql)

\* C23, as stated: whenever the database reports a failure during the probe
\* or during the fallback SELECT of a dry run, the dry run is answered with an
\* error response and the confirmation store is left as it was
C23_DatabaseFailureFailsDryRun ==
    [][(PreviewStep /\ (ProbeFailed(calls') \/ FallbackSelectFailed(calls')))
          => /\ response'.Error # Null
             /\ confirmTokens' = confirmTokens
      ]_vars

\* C23, amended: whenever the count query of the fallback of a DELETE or an
\* UPDATE fails, the dry run is answered with the error -32603 and the
\* confirmation store is left as it was; a dry run answered with an error
\* never changes the store; and a dry run answered with a result has put its
\* token in the store
C23_FailedCountFailsDryRun ==
    [][PreviewStep =>
          /\ (/\ FallbackSelectFailed(calls')
              /\ OperationOf[request'.sql] \in {"DELETE", "UPDATE"})
                => /\ response'.Error # Null
                   /\ response'.Error.Code = -32603
          /\ response'.Error # Null => confirmTokens' = confirmTokens
          /\ response'.Error = Null
                => response'.Result.confirm_token \in DOMAIN confirmTokens'
      ]_vars

\* C23, its case: with a record in the store, the dry run of a DELETE or an
\* UPDATE whose fallback count query failed after the probe was answered with
\* an error
C23_FailedCountAnswered ==
    /\ ExecuteCalled
    /\ DryRunAsked(request)
    /\ OperationOf[request.sql] \in {"DELETE", "UPDATE"}
    /\ ProbeFailed(calls)
    /\ FallbackSelectFailed(calls)
    /\ response.Error # Null
    /\ confirmTokens # EmptyMap

\* the age of the record of token in the store
Age(token) == now - confirmTokens[token].CreatedAt

\* C24: the sweep of the confirmation store, which ends every dry run that
\* stored a token, removes exactly the records older than TTLConfirm (5 minutes):
\* every such record is gone after it, every other record is there unchanged,
\* and the only record added is the one of the dry run's own token
C24_SweepRemovesExactlyExpired ==
    [][(PreviewStep /\ response'.Error = Null) =>
          /\ \A t \in DOMAIN confirmTokens :
                IF Age(t) > TTLConfirm
                THEN t \notin DOMAIN confirmTokens'
                ELSE /\ t \in DOMAIN confirmTokens'
                     /\ confirmTokens'[t] = confirmTokens[t]
          /\ DOMAIN confirmTokens' \subseteq
                DOMAIN confirmTokens \cup {response'.Result.confirm_token}
      ]_vars

\* C24, its case: a dry run has stored its token, and its sweep has removed
\* the record of an earlier token
C24_ExpiredRecordSwept ==
    /\ ExecuteCalled
    /\ DryRunAsked(request)
    /\ response.Error = Null
    /\ response.Result.confirm_token \in DOMAIN confirmTokens
    /\ minted \ DOMAIN confirmTokens # {}

\* C24, its other case: a dry run has stored its token, and its sweep has
\* left the record of a token whose age is the lifetime itself
C24_RecordAtLifetimeKept ==
    /\ ExecuteCalled
    /\ DryRunAsked(request)
    /\ response.Error = Null
    /\ \E t \in DOMAIN confirmTokens : Age(t) = TTLConfirm
    /\ Age(response.Result.confirm_token) = 0

\* the calls cs are those of an estimate the probe gave: the statement ran
\* inside the transaction and no count query of the fallback followed
ProbeGaveEstimate(cs) ==
    /\ \E i \in DOMAIN cs : cs[i].method = "tx.Exec" /\ cs[i].ok
    /\ \A i \in DOMAIN cs : cs[i].method # "db.Query"

\* C25: the is_exact_count of a dry run's result is true exactly when the
\* estimate came from the rolled-back probe
C25_ExactOnlyFromProbe ==
    [][(PreviewStep /\ response'.Error = Null) =>
          (response'.Result.is_exact_count <=> ProbeGaveEstimate(calls'))
      ]_vars

\* the methods called on a transaction
TxMethods == {"tx.Exec", "tx.Rollback", "tx.Commit"}

\* C26: ExecuteInTransaction never commits; after a Begin that succeeded it
\* sends the statement and then rolls back, whether the statement or the
\* reading of its count failed or not; after a Begin that failed there is no
\* transaction, so nothing is sent on one
C26_ProbeAlwaysRolledBack ==
    ExecuteCalled =>
        \A i \in DOMAIN calls :
            /\ calls[i].method # "tx.Commit"
            /\ (calls[i].method = "db.Begin" /\ calls[i].ok) =>
                  /\ i + 2 \in DOMAIN calls
                  /\ calls[i + 1].method = "tx.Exec"
                  /\ calls[i + 2].method = "tx.Rollback"
            /\ (calls[i].method = "db.Begin" /\ ~calls[i].ok) =>
                  (i + 1 \in DOMAIN calls => calls[i + 1].method \notin TxMethods)
            /\ calls[i].method \in TxMethods =>
                  \E j \in 1..(i - 1) :
                      /\ calls[j].method = "db.Begin" /\ calls[j].ok
                      /\ i - j <= 2

\* C26, its case: the statement failed inside the transaction, and the
\* transaction was rolled back before the fallback's count query
C26_RolledBackAfterFailure ==
    /\ ExecuteCalled
    /\ Len(calls) >= 4
    /\ calls[1] = Call("db.Begin", "", TRUE)
    /\ calls[2].method = "tx.Exec" /\ ~calls[2].ok
    /\ calls[3].method = "tx.Rollback"
    /\ calls[4].method = "db.Query"

\* the store holds a record older than the confirmation lifetime
ExpiredRecordHeld == \E t \in DOMAIN confirmTokens : Age(t) > TTLConfirm

\* C27: every confirmation record older than 5 minutes is eventually removed
\* from the store, whether or not a further request comes: whenever the store
\* holds such a record, a later state holds none
C27_ExpiredRecordsEventuallySwept == ExpiredRecordHeld ~> ~ExpiredRecordHeld

\* the age of the entry of key in the cache
EntryAge(key) == now - queryCache.entries[key].Timestamp

\* C28: each time half the TTL has passed the cache's sweep runs and removes
\* every entry older than the TTL and no entry of age at most the TTL, which
\* it leaves as it was; so the map never holds an entry whose last Set is
\* one and a half times the TTL ago or more, whether Get or Set is called or
\* not
C28_SweptWithinOneAndAHalfTTL ==
    /\ [][(queryCache # Null /\ now' # now) =>
             /\ now' = now + TTLCache \div 2
             /\ \A k \in DOMAIN queryCache.entries :
                   IF now' - queryCache.entries[k].Timestamp > TTLCache
                   THEN k \notin DOMAIN queryCache'.entries
                   ELSE /\ k \in DOMAIN queryCache'.entries
                        /\ queryCache'.entries[k] = queryCache.entries[k]
             /\ DOMAIN queryCache'.entries \subseteq DOMAIN queryCache.entries
         ]_vars
    /\ [](queryCache # Null =>
             \A k \in DOMAIN queryCache.entries :
                 2 * EntryAge(k) < 3 * TTLCache)

\* C28, its case: the key of the last Set has left the map with no call of
\* Get or Set after it, the time being one and a half times the TTL after a
\* Set at the earliest
C28_EntrySweptUntouched ==
    /\ CacheSetCalled
    /\ request.sql \notin DOMAIN queryCache.entries
    /\ 2 * now >= 3 * TTLCache

\* the structures whose lock the goroutine g holds: QueryCache.mu is the
\* only lock of the program
Holds(g) ==
    IF mu.writer = g \/ g \in mu.readers THEN {"queryCache"} ELSE {}

\* no writer on a structure overlaps a lookup or another writer on it
WritersExclusive ==
    \A g, h \in Goroutines :
        (/\ g # h
         /\ section[g] # Idle
         /\ section[g].structure = section[h].structure)
            => section[g].op = "Get" /\ section[h].op = "Get"

QueryStep ==
    /\ request' # Null
    /\ request'.tool = "query"
    /\ <<request', response', calls'>> # <<request, response, calls>>

\* the cache holds an entry for the text query that is at most TTLCache old
LiveEntry(query) ==
    /\ queryCache # Null
    /\ query \in DOMAIN queryCache.entries
    /\ now - queryCache.entries[query].Timestamp <= TTLCache

\* among the calls cs a query was sent to the database
DbQueried(cs) == \E i \in DOMAIN cs : cs[i].method = "db.Query"

\* C30: for a statement whose first keyword is SELECT the query tool calls
\* the database exactly when the cache holds no live entry for the literal
\* text; on a hit it returns the cached rows and leaves the cache as it was;
\* on a miss whose query succeeds it stores the rows under the literal text;
\* a query that fails leaves the cache as it was
C30_DatabaseOnlyOnCacheMiss ==
    [][(QueryStep /\ KindOf[request'.sql] = "SELECT") =>
          /\ DbQueried(calls') <=> ~LiveEntry(request'.sql)
          /\ LiveEntry(request'.sql) =>
                /\ response'.Error = Null
                /\ response'.Result.rows =
                      queryCache.entries[request'.sql].Result
                /\ queryCache' = queryCache
          /\ (~LiveEntry(request'.sql) /\ response'.Error = Null) =>
                /\ queryCache'.entries[request'.sql] =
                      [Result |-> response'.Result.rows, Timestamp |-> now]
                /\ \A i \in DOMAIN calls' :
                      calls'[i].method = "db.Query" =>
                          calls'[i].sql = request'.sql
          /\ response'.Error # Null => queryCache' = queryCache
      ]_vars

(***************************************************************************)
(* The cache's frame (specifications SpecCache and SpecQuery).             *)
(***************************************************************************)
\* the last call was QueryCache.Get
CacheGetCalled == request # Null /\ request.tool = "cache.Get"

\* C31: Get never modifies the cache: it changes no entry's timestamp and
\* removes nothing, so after it every key is found or not found as before
\* it, and the entries an eviction would take are the same as before it
C31_GetModifiesNothing ==
    [][\A query \in CacheKeys :
          GetCalled(query) =>
              /\ queryCache' = queryCache
              /\ \A k \in CacheKeys :
                    Get(queryCache'.entries, k, now') =
                        Get(queryCache.entries, k, now)
              /\ OldestKeys(queryCache'.entries) =
                    OldestKeys(queryCache.entries)]_vars

\* C31, its case: a Get returned the rows of the newer of two entries, and
\* the other entry, set earlier, is still the one an eviction would take
C31_NewerEntryRead ==
    /\ CacheGetCalled
    /\ response.found
    /\ Cardinality(DOMAIN queryCache.entries) = MaxEntries
    /\ \E k \in DOMAIN queryCache.entries :
          /\ queryCache.entries[k].Timestamp
                < queryCache.entries[request.sql].Timestamp
          /\ OldestKeys(queryCache.entries) = {k}
    /\ now > queryCache.entries[request.sql].Timestamp

(***************************************************************************)
(* The confirmed execution's report (specification Spec).                  *)
(***************************************************************************)
\* C32: a successful confirmed execution returns the affected-row count
\* together with the estimate stored with the token, and carries a
\* difference note exactly when the two differ
C32_DifferenceNoted ==
    [][(ExecuteCall /\ request'.dry_run = "false" /\ response'.Error = Null) =>
          /\ response'.Result.estimated_rows =
                confirmTokens[request'.confirm_token].AffectedRows
          /\ response'.Result.row_difference # "" <=>
                response'.Result.rows_affected #
                    response'.Result.estimated_rows
      ]_vars

(***************************************************************************)
(* The estimator's unknown (specification SpecEstimate).                   *)
(***************************************************************************)
\* the operations for which estimateAffectedRows has no count to take
NoHeuristic == {"DROP", "CREATE", "ALTER", "REPLACE", "UNKNOWN"}

\* C33: when the probe is inapplicable or has failed and the statement's
\* operation is DROP or one without a heuristic, the estimate is -1 and no
\* query is sent to the database after the probe
C33_UnknownIsMinusOne ==
    [][(/\ PreviewStep
        /\ response'.Error = Null
        /\ OperationOf[request'.sql] \in NoHeuristic
        /\ ~ProbeGaveEstimate(calls')) =>
          /\ response'.Result.affected_rows = -1
          /\ ~DbQueried(calls')
      ]_vars

(***************************************************************************)
(* One execution for one preview (specification Spec).                     *)
(***************************************************************************)
\* the step is a confirmed execution that the database carried out
ExecutionSucceeded ==
    ExecuteCall /\ request'.dry_run = "false" /\ response'.Error = Null

\* C34: every successful confirmed execution is matched to a token-minting
\* dry run of its statement, and no two of them to the same one: a record
\* enters the store only by a dry run that returns its token for the
\* statement the record holds, and every successful execution takes out of
\* the store a record of its statement, which no other execution can take
\* after it
C34_OneExecutionPerMintedToken ==
    [][/\ ExecutionSucceeded =>
             /\ request'.confirm_token \in minted
             /\ request'.confirm_token \in DOMAIN confirmTokens
             /\ confirmTokens[request'.confirm_token].SQL = request'.sql
             /\ request'.confirm_token \notin DOMAIN confirmTokens'
             /\ Cardinality(DOMAIN confirmTokens') =
                   Cardinality(DOMAIN confirmTokens) - 1
             /\ calls' = <<Call("db.Exec", request'.sql, TRUE)>>
       /\ \A t \in DOMAIN confirmTokens' \ DOMAIN confirmTokens :
             /\ TokenMinted
             /\ response'.Result.confirm_token = t
             /\ confirmTokens'[t].SQL = request'.sql
      ]_vars

\* C34, its case: of two tokens minted for one statement one has been
\* redeemed with success, after a redemption that failed, and the other is
\* still in the store
C34_OneOfTwoRedeemed ==
    /\ ExecuteCalled
    /\ request.dry_run = "false"
    /\ response.Error = Null
    /\ request.confirm_token \in minted \ DOMAIN confirmTokens
    /\ \E t \in DOMAIN confirmTokens : confirmTokens[t].SQL = request.sql

(***************************************************************************)
(* The cache across a mutation (specification SpecStale).                  *)
(***************************************************************************)
\* C35: the execute tool never modifies the cache, in a dry run or in a
\* confirmed execution; and a call of the query tool for a text whose entry
\* is at most TTLCache old, whatever has been executed since it was stored,
\* is answered with the rows of the entry and without a call to the database
C35_ExecuteLeavesCacheStale ==
    [][/\ (request' # Null /\ request'.tool = "execute") =>
             queryCache' = queryCache
       /\ (QueryStep /\ LiveEntry(request'.sql)) =>
             /\ response'.Error = Null
             /\ response'.Result.cached
             /\ response'.Result.rows =
                   queryCache.entries[request'.sql].Result
             /\ ~DbQueried(calls')
      ]_vars

\* C35, its case: a confirmed execution has succeeded while the cache holds
\* a live entry, stored before it
C35_MutatedWithLiveEntry ==
    /\ ExecuteCalled
    /\ request.dry_run = "false"
    /\ response.Error = Null
    /\ LiveEntry("SELECT 1")

(***************************************************************************)
(* The explain tool without analyze (specification SpecQuery).             *)
(***************************************************************************)
\* the text sent is an EXPLAIN that does not ask the database to run the
\* statement: the word after EXPLAIN is not ANALYZE
ExplainOnly(sent) ==
    /\ HasPrefix(sent, "EXPLAIN ")
    /\ ~HasPrefix(ToUpper(TrimSpace(SubSeq(sent, 9, Len(sent)))), "ANALYZE")

\* C36: the explain tool called with analyze absent or false never has the
\* database execute the statement: whatever the text, all it sends is a
\* query that is an EXPLAIN without ANALYZE
C36_PlainExplainNeverExecutes ==
    (ExplainCalled /\ request.analyze \in {"absent", "false"}) =>
        \A i \in DOMAIN calls :
            /\ calls[i].method = "db.Query"
            /\ ExplainOnly(calls[i].sql)

====
